---- MODULE Spec2Model ----
(***************************************************************************)
(* music-man: the audio indexing and transfer engine.                      *)
(*                                                                         *)
(* Strings are sequences of characters; a character is a token ("A", " ",  *)
(* "U+00C9" for a non-ASCII scalar).  A path is a sequence of components   *)
(* as std::path::Path sees it: RootDir, CurDir, ParentDir or a name.       *)
(* The filesystem is one tree, so that the cache and a device rooted in    *)
(* the cache's audio directory alias the same files.                       *)
(***************************************************************************)
EXTENDS Integers, Sequences, FiniteSets, TLC

VARIABLES
    fs,          \* the filesystem: resolved path -> node (directory or file with data)
    descending,  \* the order in which this filesystem's read_dir yields a directory
    cache,       \* LocalCache: [audio_dir, index, playlists, playlists_path]
    device,      \* AttachedDevice: [name, path, index]
    last,        \* the operation that produced this state, its arguments and its result
    before,      \* fs, cache and last as they were when that operation began
    commands     \* how many commands and calls were made since the start

vars == <<fs, descending, cache, device, last, before, commands>>

----------------------------------------------------------------------------
(* Option<T> *)

None == <<>>

Some(x) == <<x>>

IsSome(o) == o # <<>>

Unwrap(o) == o[1]

\* `let v = x; F(v)`: F of the value of x, which is computed once.
Let(x, F(_)) == CHOOSE r \in {F(v) : v \in {x}} : TRUE

----------------------------------------------------------------------------
(* str *)

UpperAscii ==
    <<"A", "B", "C", "D", "E", "F", "G", "H", "I", "J", "K", "L", "M",
      "N", "O", "P", "Q", "R", "S", "T", "U", "V", "W", "X", "Y", "Z">>

LowerAscii ==
    <<"a", "b", "c", "d", "e", "f", "g", "h", "i", "j", "k", "l", "m",
      "n", "o", "p", "q", "r", "s", "t", "u", "v", "w", "x", "y", "z">>

\* char::to_lowercase: the Unicode lowercase mapping, here on ASCII and on
\* U+00C9 (LATIN CAPITAL LETTER E WITH ACUTE), whose lowercase is U+00E9.
char_to_lowercase(c) ==
    IF \E i \in DOMAIN UpperAscii : UpperAscii[i] = c
    THEN LowerAscii[CHOOSE i \in DOMAIN UpperAscii : UpperAscii[i] = c]
    ELSE IF c = "U+00C9" THEN "U+00E9" ELSE c

\* str::to_lowercase
to_lowercase(s) == [i \in 1..Len(s) |-> char_to_lowercase(s[i])]

\* char::is_whitespace on the characters of the model
is_whitespace(c) == c = " "

\* str::starts_with
starts_with(s, pat) == Len(s) >= Len(pat) /\ SubSeq(s, 1, Len(pat)) = pat

\* str::find: the index of the first occurrence of pat in s, 0 if there is none
find(s, pat) ==
    LET hits == {i \in 1..(Len(s) - Len(pat) + 1) : SubSeq(s, i, i + Len(pat) - 1) = pat}
    IN  IF hits = {} THEN 0 ELSE CHOOSE i \in hits : \A j \in hits : i <= j

\* str::rfind: the index of the last occurrence of pat in s, 0 if there is none
rfind(s, pat) ==
    LET hits == {i \in 1..(Len(s) - Len(pat) + 1) : SubSeq(s, i, i + Len(pat) - 1) = pat}
    IN  IF hits = {} THEN 0 ELSE CHOOSE i \in hits : \A j \in hits : i >= j

\* str::contains
contains(s, pat) == find(s, pat) # 0

\* str::split_once: the parts before and after the first occurrence of pat
split_once(s, pat) ==
    Let(find(s, pat), LAMBDA i :
        IF i = 0 THEN None
        ELSE Some(<<SubSeq(s, 1, i - 1), SubSeq(s, i + Len(pat), Len(s))>>))

\* str::trim: without leading and trailing whitespace
trim(s) ==
    LET keep == {i \in 1..Len(s) : ~is_whitespace(s[i])}
    IN  IF keep = {} THEN <<>>
        ELSE SubSeq(s, CHOOSE i \in keep : \A j \in keep : i <= j,
                       CHOOSE i \in keep : \A j \in keep : i >= j)

\* [&str]::join
RECURSIVE join_str(_, _)
join_str(parts, sep) ==
    IF parts = <<>> THEN <<>>
    ELSE IF Len(parts) = 1 THEN parts[1]
    ELSE parts[1] \o sep \o join_str(Tail(parts), sep)

----------------------------------------------------------------------------
(* std::path *)

RootDir == <<"/">>

CurDir == <<".">>

ParentDir == <<".", ".">>

\* The pieces of s between the '/' characters (empty pieces included).
RECURSIVE split_slash(_)
split_slash(s) ==
    Let(find(s, <<"/">>), LAMBDA i :
        IF i = 0 THEN <<s>>
        ELSE <<SubSeq(s, 1, i - 1)>> \o split_slash(SubSeq(s, i + 1, Len(s))))

\* Path::components of the string s: a leading '/' is RootDir, repeated
\* separators and inner "." are dropped, a leading "." is CurDir.
PathBuf_from(s) ==
    Let(split_slash(s), LAMBDA pieces :
        (IF starts_with(s, <<"/">>) THEN <<RootDir>>
         ELSE IF pieces[1] = CurDir THEN <<CurDir>> ELSE <<>>)
            \o SelectSeq(pieces, LAMBDA p : p # <<>> /\ p # CurDir))

\* Path::display: the components joined by '/'
display(p) ==
    IF p # <<>> /\ p[1] = RootDir
    THEN <<"/">> \o join_str(Tail(p), <<"/">>)
    ELSE join_str(p, <<"/">>)

\* Path::is_absolute
is_absolute(p) == p # <<>> /\ p[1] = RootDir

\* Path::join: an absolute argument replaces the base
join(base, p) == IF is_absolute(p) THEN p ELSE base \o p

\* Path::file_name: the last component when it is a name
file_name(p) ==
    IF p = <<>> \/ p[Len(p)] \in {RootDir, CurDir, ParentDir} THEN None
    ELSE Some(p[Len(p)])

\* Path::file_stem: the file name up to its last '.', the whole name when it
\* has none or only a leading one
file_stem(p) ==
    Let(file_name(p), LAMBDA name :
        IF name = None THEN None
        ELSE Let(rfind(Unwrap(name), <<".">>), LAMBDA dot :
                 IF dot <= 1 THEN name ELSE Some(SubSeq(Unwrap(name), 1, dot - 1))))

\* Path::extension: what follows the last '.' of the file name, when that
\* '.' is not the leading character
extension(p) ==
    Let(file_name(p), LAMBDA name :
        IF name = None THEN None
        ELSE Let(rfind(Unwrap(name), <<".">>), LAMBDA dot :
                 IF dot <= 1 THEN None
                 ELSE Some(SubSeq(Unwrap(name), dot + 1, Len(Unwrap(name))))))

----------------------------------------------------------------------------
(* std::fs *)

Dir == [kind |-> "dir"]

File(d) == [kind |-> "file", data |-> d]

\* The process's working directory, against which relative paths resolve.
Cwd == << <<"w">> >>

\* The path with its "." and ".." components applied: the key of fs.
RECURSIVE normalize(_, _)
normalize(key, comps) ==
    IF comps = <<>> THEN key
    ELSE LET c == comps[1]
         IN  IF c = RootDir THEN normalize(<<>>, Tail(comps))
             ELSE IF c = CurDir THEN normalize(key, Tail(comps))
             ELSE IF c = ParentDir
             THEN normalize(IF key = <<>> THEN key ELSE SubSeq(key, 1, Len(key) - 1),
                            Tail(comps))
             ELSE normalize(Append(key, c), Tail(comps))

\* Whether the kernel can walk the path: every component it passes through
\* before the last is an existing directory.
RECURSIVE walkable(_, _, _)
walkable(f, key, comps) ==
    IF Len(comps) <= 1 THEN TRUE
    ELSE \E next \in {normalize(key, <<comps[1]>>)} :
             next \in DOMAIN f /\ f[next].kind = "dir" /\ walkable(f, next, Tail(comps))

resolve(p) == normalize(Cwd, p)

can_walk(f, p) == walkable(f, IF is_absolute(p) THEN <<>> ELSE Cwd, p)

\* Path::exists, Path::is_file, Path::is_dir
exists(f, p) == can_walk(f, p) /\ resolve(p) \in DOMAIN f

is_file(f, p) == can_walk(f, p) /\ \E k \in {resolve(p)} : k \in DOMAIN f /\ f[k].kind = "file"

is_dir(f, p) == can_walk(f, p) /\ \E k \in {resolve(p)} : k \in DOMAIN f /\ f[k].kind = "dir"

\* The characters in the order the directory listing compares them.
CharOrder ==
    <<" ", "%", "(", ")", "-", ".", "3", "_">> \o UpperAscii \o LowerAscii
        \o <<"U+00C9", "U+00E2", "U+00E9", "U+2013", "U+201C", "U+20AC">>

ord(c) == CHOOSE i \in DOMAIN CharOrder : CharOrder[i] = c

RECURSIVE name_less(_, _)
name_less(a, b) ==
    IF b = <<>> THEN FALSE
    ELSE IF a = <<>> THEN TRUE
    ELSE IF a[1] # b[1] THEN ord(a[1]) < ord(b[1])
    ELSE name_less(Tail(a), Tail(b))

\* The names of a set in the directory's order.
RECURSIVE in_dir_order(_, _)
in_dir_order(names, desc) ==
    IF names = {} THEN <<>>
    ELSE Let(CHOOSE n \in names : \A m \in names \ {n} :
                 IF desc THEN name_less(m, n) ELSE name_less(n, m),
             LAMBDA first : <<first>> \o in_dir_order(names \ {first}, desc))

\* std::fs::read_dir: the paths of the directory's entries, in the order
\* the filesystem yields them (unspecified, the same for an unchanged
\* directory)
read_dir(f, desc, p) ==
    Let(resolve(p), LAMBDA d :
        Let(in_dir_order({k[Len(k)] : k \in {k \in DOMAIN f : Len(k) = Len(d) + 1
                                                       /\ SubSeq(k, 1, Len(d)) = d}},
                         desc),
            LAMBDA ordered : [i \in 1..Len(ordered) |-> Append(p, ordered[i])]))

\* mkdir(2): "ok", or the error
mkdir_result(f, p) ==
    IF ~can_walk(f, p) THEN "NotFound"
    ELSE IF \E k \in {resolve(p)} : k \in DOMAIN f \/ k = <<>> THEN "AlreadyExists"
    ELSE "ok"

\* DirBuilder::create_dir_all once the directories above p are made: mkdir,
\* an error of which is ignored when p is a directory
mkdir_or_is_dir(f, p) ==
    IF mkdir_result(f, p) = "ok" THEN [ok |-> TRUE, fs |-> (resolve(p) :> Dir) @@ f]
    ELSE [ok |-> is_dir(f, p), fs |-> f]

\* Path::parent
parent(p) ==
    IF p = <<>> \/ p = <<RootDir>> THEN None ELSE Some(SubSeq(p, 1, Len(p) - 1))

\* std::fs::create_dir_all: [ok, fs]; the directories made before a failure stay
RECURSIVE create_dir_all(_, _)
create_dir_all(f, p) ==
    IF p = <<>> THEN [ok |-> TRUE, fs |-> f]
    ELSE IF mkdir_result(f, p) # "NotFound" \/ parent(p) = None
    THEN mkdir_or_is_dir(f, p)
    ELSE Let(create_dir_all(f, Unwrap(parent(p))), LAMBDA up :
             IF ~up.ok THEN up ELSE mkdir_or_is_dir(up.fs, p))

\* The content of a file: raw bytes, or the text of a JSON object given by
\* its members in the order they are written.
Bytes(b) == [kind |-> "bytes", bytes |-> b]

JsonText(members) == [kind |-> "json", members |-> members]

Empty == Bytes(<<>>)

\* std::fs::copy: [ok, fs].  The source must be a regular file; the
\* destination is opened with create and truncate before the source is
\* read, so a copy of a file onto itself leaves it empty.
fs_copy(f, from, to) ==
    IF ~is_file(f, from) THEN [ok |-> FALSE, fs |-> f]
    ELSE IF ~can_walk(f, to) \/ is_dir(f, to) \/ resolve(to) = <<>>
    THEN [ok |-> FALSE, fs |-> f]
    ELSE Let((resolve(to) :> File(Empty)) @@ f, LAMBDA truncated :
             [ok |-> TRUE,
              fs |-> (resolve(to) :> File(truncated[resolve(from)].data)) @@ truncated])

\* std::fs::write: [ok, fs]; fails when the file cannot be created
fs_write(f, p, data) ==
    IF ~can_walk(f, p) \/ is_dir(f, p) \/ resolve(p) = <<>>
    THEN [ok |-> FALSE, fs |-> f]
    ELSE [ok |-> TRUE, fs |-> (resolve(p) :> File(data)) @@ f]

----------------------------------------------------------------------------
(* audio.rs *)

AudioInfo(artist, title, filename, youtube_url) ==
    [artist |-> artist, title |-> title, filename |-> filename,
     youtube_url |-> youtube_url, isrc |-> None, duration_secs |-> None]

AudioKey(artist, title) == [artist |-> artist, title |-> title]

\* AudioKey::from_info
from_info(info) ==
    IF info.artist = None \/ info.title = None THEN None
    ELSE Some(AudioKey(to_lowercase(Unwrap(info.artist)),
                       to_lowercase(Unwrap(info.title))))

Hyphen == <<" ", "-", " ">>

\* The second separator as the source file spells it: between the two spaces
\* stand the three characters U+00E2 U+20AC U+201C, the bytes of an en dash
\* read in a one-byte code page, and not the character U+2013.
EnDash == <<" ", "U+00E2", "U+20AC", "U+201C", " ">>

\* AudioInfo::from_filename
from_filename(filename) ==
    Let(display(filename), LAMBDA filename_str :
    Let(Let(file_stem(filename), LAMBDA s : IF s = None THEN filename_str ELSE Unwrap(s)),
        LAMBDA stem :
    Let(Let(split_once(stem, Hyphen),
            LAMBDA hyphen : IF hyphen # None THEN hyphen ELSE split_once(stem, EnDash)),
        LAMBDA split :
            IF split = None
            THEN AudioInfo(None, Some(stem), Some(filename_str), None)
            ELSE AudioInfo(Some(trim(Unwrap(split)[1])), Some(trim(Unwrap(split)[2])),
                           Some(filename_str), None))))

LocalPath(p) == [kind |-> "LocalPath", path |-> p]

RemoteUrl(u) == [kind |-> "RemoteUrl", url |-> u]

Ok(v) == [ok |-> TRUE, value |-> v]

Err(e) == [ok |-> FALSE, error |-> e]

SupportedExtensions ==
    {<<"m", "p", "3">>, <<"f", "l", "a", "c">>, <<"w", "m", "a">>, <<"w", "a", "v">>,
     <<"a", "a", "c">>, <<"m", "4", "a">>, <<"a", "p", "e">>}

\* is_supported_audio_file
is_supported_audio_file(f, entry) ==
    IF ~is_file(f, entry) THEN FALSE
    ELSE IF starts_with(Unwrap(file_name(entry)), <<".", "_">>) THEN FALSE
    ELSE \E ext \in {extension(entry)} :
             ext # None /\ to_lowercase(Unwrap(ext)) \in SupportedExtensions

\* list_audio_in_folder taking every regular file of the folder, whatever
\* its extension.
list_files_in_folder(f, desc, folder) ==
    IF ~is_dir(f, folder) THEN Err("Io")
    ELSE Let(SelectSeq(read_dir(f, desc, folder), LAMBDA e : is_file(f, e)),
             LAMBDA entries :
                 Ok([i \in 1..Len(entries) |->
                        from_filename(<<Unwrap(file_name(entries[i]))>>)]))

\* list_audio_in_folder: the AudioInfo of each supported file, from its file name
list_audio_in_folder(f, desc, folder) ==
    IF ~is_dir(f, folder) THEN Err("Io")
    ELSE Let(SelectSeq(read_dir(f, desc, folder), LAMBDA e : is_supported_audio_file(f, e)),
             LAMBDA entries :
                 Ok([i \in 1..Len(entries) |->
                        from_filename(<<Unwrap(file_name(entries[i]))>>)]))

----------------------------------------------------------------------------
(* cache.rs *)

EmptyMap == [x \in {} |-> x]

\* HashMap::insert
insert(m, k, v) == (k :> v) @@ m

get_data_dir == <<RootDir, <<"d", "a", "t", "a">>, <<"m", "u", "s", "i", "c", "-", "m", "a", "n">>>>

get_config_dir == <<RootDir, <<"c", "o", "n", "f", "i", "g">>, <<"m", "u", "s", "i", "c", "-", "m", "a", "n">>>>

get_cache_dir == <<RootDir, <<"c", "a", "c", "h", "e">>, <<"m", "u", "s", "i", "c", "-", "m", "a", "n">>>>

audio_cache_dir == join(get_cache_dir, <<<<"a", "u", "d", "i", "o">>>>)

playlist_cache == join(audio_cache_dir, <<<<"p", "l", "a", "y", "l", "i", "s", "t", "s", ".", "j", "s", "o", "n">>>>)

\* setup_app_directories: [ok, fs]
RECURSIVE create_dirs(_, _)
create_dirs(f, dirs) ==
    IF dirs = <<>> THEN [ok |-> TRUE, fs |-> f]
    ELSE Let(create_dir_all(f, dirs[1]), LAMBDA made :
             IF ~made.ok THEN made ELSE create_dirs(made.fs, Tail(dirs)))

setup_app_directories(f) ==
    create_dirs(f, <<get_data_dir, get_config_dir, get_cache_dir, audio_cache_dir>>)

\* serde_json::from_str::<HashMap<String, Vec<AudioInfo>>>: the members
\* inserted in turn, None when the text is not such an object
RECURSIVE from_members(_, _)
from_members(members, m) ==
    IF members = <<>> THEN m
    ELSE from_members(Tail(members), insert(m, members[1][1], members[1][2]))

serde_from_str(text) ==
    IF text.kind = "json" THEN Some(from_members(text.members, EmptyMap)) ELSE None

\* serde_json::to_string_pretty of the map, whose iteration yields its keys
\* in the order `keys`
to_string_pretty(playlists, keys) ==
    JsonText([i \in 1..Len(keys) |-> <<keys[i], playlists[keys[i]]>>])

\* The orders in which a HashMap may yield its keys.
RECURSIVE iteration_orders(_)
iteration_orders(S) ==
    IF S = {} THEN {<<>>}
    ELSE UNION {{<<x>> \o rest : rest \in iteration_orders(S \ {x})} : x \in S}

\* LocalCache::load_playlists
load_playlists(f, path) ==
    IF ~is_file(f, path) THEN EmptyMap
    ELSE Let(serde_from_str(f[resolve(path)].data), LAMBDA playlists :
             IF playlists = None THEN EmptyMap ELSE Unwrap(playlists))

\* LocalCache::rebuild_index, the loop over the directory's entries
RECURSIVE rebuild_loop(_, _, _)
rebuild_loop(f, entries, index) ==
    IF entries = <<>> THEN index
    ELSE Let(entries[1], LAMBDA entry :
         Let(Unwrap(file_name(entry)), LAMBDA filename :
         Let(from_info(from_filename(<<filename>>)), LAMBDA key :
             IF is_file(f, entry) /\ ~starts_with(filename, <<".", "_">>) /\ key # None
             THEN rebuild_loop(f, Tail(entries), insert(index, Unwrap(key), entry))
             ELSE rebuild_loop(f, Tail(entries), index))))

\* LocalCache::rebuild_index
rebuild_index(f, desc, audio_dir) ==
    IF ~is_dir(f, audio_dir) THEN EmptyMap
    ELSE rebuild_loop(f, read_dir(f, desc, audio_dir), EmptyMap)

\* LocalCache::new writing an empty overlay where it could load none.
LocalCache_new_or_init(f, desc) ==
    Let(setup_app_directories(f), LAMBDA made :
        [cache |-> [audio_dir |-> audio_cache_dir,
                    index |-> rebuild_index(made.fs, desc, audio_cache_dir),
                    playlists |-> load_playlists(made.fs, playlist_cache),
                    playlists_path |-> playlist_cache],
         fs |-> IF load_playlists(made.fs, playlist_cache) = EmptyMap
                THEN fs_write(made.fs, playlist_cache, JsonText(<<>>)).fs
                ELSE made.fs])

\* LocalCache::new: [cache, fs]
LocalCache_new(f, desc) ==
    Let(setup_app_directories(f), LAMBDA made :
        [cache |-> [audio_dir |-> audio_cache_dir,
                    index |-> rebuild_index(made.fs, desc, audio_cache_dir),
                    playlists |-> load_playlists(made.fs, playlist_cache),
                    playlists_path |-> playlist_cache],
         fs |-> made.fs])

\* search_path looking the title up before it asks for the key: what has no
\* key is not found.
search_path_lookup_first(c, info) ==
    Let(from_info(info), LAMBDA key :
        IF key = None \/ Unwrap(key) \notin DOMAIN c.index THEN Err("NotFound")
        ELSE Ok(c.index[Unwrap(key)]))

\* LocalCache::search_path
search_path(c, info) ==
    Let(from_info(info), LAMBDA key :
        IF key = None THEN Err("MissingInfo")
        ELSE IF Unwrap(key) \notin DOMAIN c.index THEN Err("NotFound")
        ELSE Ok(c.index[Unwrap(key)]))

\* LocalCache::search
search(c, info) ==
    Let(search_path(c, info), LAMBDA path :
        IF ~path.ok THEN path ELSE Ok(LocalPath(path.value)))

\* LocalCache::get_playlist
get_playlist(c, name) ==
    IF name \in DOMAIN c.playlists THEN Some(c.playlists[name]) ELSE None

\* search_playlist leaving out the entries that do not resolve.
search_playlist_resolved(c, playlist_name) ==
    Let(get_playlist(c, playlist_name), LAMBDA playlist :
        IF playlist = None THEN Err("NotFound")
        ELSE Let(SelectSeq([i \in 1..Len(Unwrap(playlist)) |->
                               <<Unwrap(playlist)[i], search(c, Unwrap(playlist)[i])>>],
                           LAMBDA pair : pair[2].ok),
                 LAMBDA found : Ok([i \in DOMAIN found |-> <<found[i][1], found[i][2].value>>])))

\* LocalCache::search_playlist: the pairs of every entry, or the first error
search_playlist(c, playlist_name) ==
    Let(get_playlist(c, playlist_name), LAMBDA playlist :
        IF playlist = None THEN Err("NotFound")
        ELSE Let([i \in 1..Len(Unwrap(playlist)) |-> search(c, Unwrap(playlist)[i])],
                 LAMBDA found :
                     IF \A i \in DOMAIN found : found[i].ok
                     THEN Ok([i \in DOMAIN found |-> <<Unwrap(playlist)[i], found[i].value>>])
                     ELSE found[CHOOSE i \in DOMAIN found :
                                    ~found[i].ok /\ \A j \in 1..(i - 1) : found[j].ok]))

\* LocalCache::save_playlists: [ok, fs].  `io` is what the operating system
\* does with the write: "ok"; "create_failed", the file cannot be opened;
\* "write_failed", the file is opened (and so truncated) and the write fails.
save_playlists(c, f, keys, io) ==
    IF io = "create_failed" THEN [ok |-> FALSE, fs |-> f]
    ELSE IF io = "write_failed"
    THEN [ok |-> FALSE, fs |-> fs_write(f, c.playlists_path, Empty).fs]
    ELSE fs_write(f, c.playlists_path, to_string_pretty(c.playlists, keys))

\* add_to_playlist reading playlists.json again before it appends: what
\* another instance has written is kept.
add_to_playlist_merging(c, f, playlist_name, audio, keys, io) ==
    Let(IF is_file(f, c.playlists_path) THEN load_playlists(f, c.playlists_path)
        ELSE c.playlists,
        LAMBDA on_disk :
    Let([c EXCEPT !.playlists =
            insert(on_disk, playlist_name,
                   Append(IF playlist_name \in DOMAIN on_disk
                          THEN on_disk[playlist_name] ELSE <<>>, audio))],
        LAMBDA added :
            [cache |-> added,
             fs |-> save_playlists(added, f,
                                   CHOOSE order \in iteration_orders(DOMAIN added.playlists) :
                                       TRUE,
                                   io).fs]))

\* add_to_playlist giving the entry up when the overlay cannot be saved.
add_to_playlist_or_undo(c, f, playlist_name, audio, keys, io) ==
    Let([c EXCEPT !.playlists =
            insert(c.playlists, playlist_name,
                   Append(IF playlist_name \in DOMAIN c.playlists
                          THEN c.playlists[playlist_name] ELSE <<>>, audio))],
        LAMBDA added :
            Let(save_playlists(added, f, keys, io), LAMBDA saved :
                [cache |-> IF saved.ok THEN added ELSE c, fs |-> saved.fs]))

\* add_to_playlist writing the overlay before it appends to it.
add_to_playlist_save_first(c, f, playlist_name, audio, keys, io) ==
    [cache |-> [c EXCEPT !.playlists =
                    insert(c.playlists, playlist_name,
                           Append(IF playlist_name \in DOMAIN c.playlists
                                  THEN c.playlists[playlist_name] ELSE <<>>, audio))],
     fs |-> save_playlists(c, f, SelectSeq(keys, LAMBDA k : k \in DOMAIN c.playlists), io).fs]

\* LocalCache::add_to_playlist: [cache, fs]; the result of the save is dropped
add_to_playlist(c, f, playlist_name, audio, keys, io) ==
    Let([c EXCEPT !.playlists =
            insert(c.playlists, playlist_name,
                   Append(IF playlist_name \in DOMAIN c.playlists
                          THEN c.playlists[playlist_name] ELSE <<>>, audio))],
        LAMBDA added : [cache |-> added, fs |-> save_playlists(added, f, keys, io).fs])

\* add_to_cache with HashMap::entry(key).or_insert(path) for its insert: a
\* key already in the index keeps its path.
add_to_index_or_insert(index, info, location) ==
    Let(from_info(info), LAMBDA key :
        IF location.kind = "LocalPath" /\ key # None /\ Unwrap(key) \notin DOMAIN index
        THEN insert(index, Unwrap(key), location.path)
        ELSE index)

\* The index after LocalCache::add_to_cache
add_to_index(index, info, location) ==
    Let(from_info(info), LAMBDA key :
        IF location.kind = "LocalPath" /\ key # None
        THEN insert(index, Unwrap(key), location.path)
        ELSE index)

\* add_to_cache leaving out of the playlist a track the playlist already has.
add_to_cache_once(c, f, info, location, playlist, keys, io) ==
    Let([c EXCEPT !.index = add_to_index(c.index, info, location)], LAMBDA indexed :
        IF playlist # None
               /\ ~(/\ Unwrap(playlist) \in DOMAIN c.playlists
                    /\ \E i \in DOMAIN c.playlists[Unwrap(playlist)] :
                           c.playlists[Unwrap(playlist)][i] = info)
        THEN add_to_playlist(indexed, f, Unwrap(playlist), info, keys, io)
        ELSE [cache |-> indexed, fs |-> f])

\* LocalCache::add_to_cache: [cache, fs]
add_to_cache(c, f, info, location, playlist, keys, io) ==
    Let([c EXCEPT !.index = add_to_index(c.index, info, location)], LAMBDA indexed :
        IF playlist # None
        THEN add_to_playlist(indexed, f, Unwrap(playlist), info, keys, io)
        ELSE [cache |-> indexed, fs |-> f])

\* AudioSource for LocalCache::fetch: [result, fs]
cache_fetch(c, f, info, dest) ==
    Let(search_path(c, info), LAMBDA cached_path :
        IF ~cached_path.ok THEN [result |-> cached_path, fs |-> f]
        ELSE IF dest = c.audio_dir THEN [result |-> Ok(LocalPath(cached_path.value)), fs |-> f]
        ELSE IF file_name(cached_path.value) = None
        THEN [result |-> Err("NotFound"), fs |-> f]
        ELSE Let(join(dest, <<Unwrap(file_name(cached_path.value))>>), LAMBDA dest_path :
             Let(fs_copy(f, cached_path.value, dest_path), LAMBDA copied :
                 [result |-> IF copied.ok THEN Ok(LocalPath(dest_path)) ELSE Err("Io"),
                  fs |-> copied.fs])))

----------------------------------------------------------------------------
(* device.rs, index.rs *)

Named(s) == [kind |-> "Named", name |-> s]

Uncategorized == [kind |-> "Uncategorized"]

Playlist(name, audio) == [name |-> name, audio |-> audio]

\* AudioIndex for LocalCache::list_playlists: the playlists of the overlay,
\* as the HashMap yields them in the order `keys`, and then Uncategorized
\* with every supported file of the audio directory, if there is any
cache_list_playlists(c, f, desc, keys) ==
    Let(list_audio_in_folder(f, desc, c.audio_dir), LAMBDA all_cached :
        IF ~all_cached.ok THEN all_cached
        ELSE Ok([i \in 1..Len(keys) |-> Playlist(Named(keys[i]), c.playlists[keys[i]])]
                    \o IF all_cached.value # <<>>
                       THEN <<Playlist(Uncategorized, all_cached.value)>>
                       ELSE <<>>))

\* device.rs, AudioKey::from_info
device_from_info(info) ==
    IF info.artist = None \/ info.title = None THEN None
    ELSE Some(AudioKey(to_lowercase(Unwrap(info.artist)),
                       to_lowercase(Unwrap(info.title))))

\* AttachedDevice::list_audio_in_folder: the AudioInfo of each supported
\* file, from the entry's path
device_list_audio_in_folder(f, desc, folder) ==
    Let(SelectSeq(read_dir(f, desc, folder), LAMBDA e : is_supported_audio_file(f, e)),
        LAMBDA entries : [i \in 1..Len(entries) |-> from_filename(entries[i])])

SystemVolumeInformation == <<"S", "y", "s", "t", "e", "m", " ", "V", "o", "l", "u", "m", "e", " ", "I", "n", "f", "o", "r", "m", "a", "t", "i", "o", "n">>

\* list_playlists taking every directory of the root for a playlist, the
\* hidden ones and the system's included.
is_any_directory(f, e) == is_dir(f, e)

\* AudioIndex for AttachedDevice::list_playlists
is_playlist_directory(f, e) ==
    is_dir(f, e) /\ \E name \in {Unwrap(file_name(e))} :
                        ~starts_with(name, <<".">>) /\ name # SystemVolumeInformation

list_playlists(f, desc, path) ==
    Let(SelectSeq(read_dir(f, desc, path), LAMBDA e : is_playlist_directory(f, e)),
        LAMBDA playlist_directories :
    Let([i \in 1..Len(playlist_directories) |->
            Playlist(Named(Unwrap(file_name(playlist_directories[i]))),
                     device_list_audio_in_folder(f, desc, playlist_directories[i]))],
        LAMBDA playlists :
    Let(device_list_audio_in_folder(f, desc, path), LAMBDA root_playlist :
        IF root_playlist # <<>>
        THEN Append(playlists, Playlist(Uncategorized, root_playlist))
        ELSE playlists)))

\* AttachedDevice::new, the loop over one playlist's audio
RECURSIVE index_audio(_, _, _)
index_audio(dirpath, audio, index) ==
    IF audio = <<>> THEN index
    ELSE Let(device_from_info(audio[1]), LAMBDA audiokey :
             IF audiokey # None
             THEN index_audio(dirpath, Tail(audio),
                              insert(index, Unwrap(audiokey),
                                     LocalPath(join(dirpath,
                                                    PathBuf_from(Unwrap(audio[1].filename))))))
             ELSE index_audio(dirpath, Tail(audio), index))

\* AttachedDevice::new, the loop over the playlists
RECURSIVE index_playlists(_, _, _)
index_playlists(path, playlists, index) ==
    IF playlists = <<>> THEN index
    ELSE index_playlists(path, Tail(playlists),
                         index_audio(IF playlists[1].name = Uncategorized THEN path
                                     ELSE join(path, PathBuf_from(playlists[1].name.name)),
                                     playlists[1].audio, index))

\* AttachedDevice::new
AttachedDevice_new(name, path, f, desc) ==
    [name |-> name, path |-> path,
     index |-> index_playlists(path, list_playlists(f, desc, path), EmptyMap)]

\* AttachedDevice::search
device_search(d, info) ==
    Let(device_from_info(info), LAMBDA key :
        IF key = None THEN Err("MissingInfo")
        ELSE IF Unwrap(key) \notin DOMAIN d.index THEN Err("NotFound")
        ELSE Ok(d.index[Unwrap(key)]))

----------------------------------------------------------------------------
(* target.rs *)

\* AudioTarget for AttachedDevice::contains
device_contains(d, info) == device_search(d, info)

\* import without the playlist's directory: everything goes to the root.
import_dirpath_flat(d, playlist) == d.path

\* The directory AttachedDevice::import copies into
import_dirpath(d, playlist) ==
    IF playlist = None \/ playlist = Some(Uncategorized) THEN d.path
    ELSE join(d.path, PathBuf_from(Unwrap(playlist).name))

\* import making the playlist's directory before it looks at the kind of
\* the source location.
import_mkdir_first(d, f, source_location, info, playlist) ==
    Let(import_dirpath(d, playlist), LAMBDA dirpath :
    Let(create_dir_all(f, dirpath), LAMBDA made :
        IF ~made.ok THEN [result |-> Err("Io"), fs |-> made.fs]
        ELSE IF source_location.kind # "LocalPath"
        THEN [result |-> Err("ExportFailed"), fs |-> made.fs]
        ELSE Let(join(dirpath, <<Unwrap(file_name(source_location.path))>>),
                 LAMBDA dest_path :
             Let(fs_copy(made.fs, source_location.path, dest_path), LAMBDA copied :
                 [result |-> IF copied.ok THEN Ok(LocalPath(dest_path)) ELSE Err("Io"),
                  fs |-> copied.fs]))))

\* import refusing to write over a file that is already at the destination.
import_create_new(d, f, source_location, info, playlist) ==
    IF source_location.kind # "LocalPath" THEN [result |-> Err("ExportFailed"), fs |-> f]
    ELSE Let(import_dirpath(d, playlist), LAMBDA dirpath :
         Let(create_dir_all(f, dirpath), LAMBDA made :
             IF ~made.ok THEN [result |-> Err("Io"), fs |-> made.fs]
             ELSE Let(join(dirpath, <<Unwrap(file_name(source_location.path))>>),
                      LAMBDA dest_path :
                  IF exists(made.fs, dest_path) THEN [result |-> Err("Io"), fs |-> made.fs]
                  ELSE Let(fs_copy(made.fs, source_location.path, dest_path), LAMBDA copied :
                      [result |-> IF copied.ok THEN Ok(LocalPath(dest_path)) ELSE Err("Io"),
                       fs |-> copied.fs]))))

\* AudioTarget for AttachedDevice::import: [result, fs]
import(d, f, source_location, info, playlist) ==
    IF source_location.kind # "LocalPath" THEN [result |-> Err("ExportFailed"), fs |-> f]
    ELSE Let(import_dirpath(d, playlist), LAMBDA dirpath :
         Let(create_dir_all(f, dirpath), LAMBDA made :
             IF ~made.ok THEN [result |-> Err("Io"), fs |-> made.fs]
             ELSE Let(join(dirpath, <<Unwrap(file_name(source_location.path))>>),
                      LAMBDA dest_path :
                  Let(fs_copy(made.fs, source_location.path, dest_path), LAMBDA copied :
                      [result |-> IF copied.ok THEN Ok(LocalPath(dest_path)) ELSE Err("Io"),
                       fs |-> copied.fs]))))

----------------------------------------------------------------------------
(* source.rs *)

\* str::replace
RECURSIVE replace(_, _, _)
replace(s, pat, by) ==
    Let(find(s, pat), LAMBDA i :
        IF i = 0 THEN s
        ELSE SubSeq(s, 1, i - 1) \o by \o replace(SubSeq(s, i + Len(pat), Len(s)), pat, by))

\* sanitize_filename
sanitize_filename(s) ==
    [i \in 1..Len(s) |->
        IF s[i] \in {"/", "\\", ":", "*", "?", "\"", "<", ">", "|"} THEN "_" ELSE s[i]]

ExtTemplate == <<"%", "(", "e", "x", "t", ")", "s">>

TitleTemplate == <<"%", "(", "t", "i", "t", "l", "e", ")", "s">>

\* The output template YtDlpSource::download_audio hands to yt-dlp
dest_filename(info, output_dir) ==
    IF info.artist # None /\ info.title # None
    THEN display(output_dir) \o <<"/">> \o sanitize_filename(Unwrap(info.artist))
            \o Hyphen \o sanitize_filename(Unwrap(info.title)) \o <<".">> \o ExtTemplate
    ELSE display(output_dir) \o <<"/">> \o TitleTemplate \o <<".">> \o ExtTemplate

\* What a run of `yt-dlp -x --audio-format mp3 -o <template> <url>` leaves
\* on disk.  `proc` is the run: its status ("spawn_failed", "exit_nonzero",
\* "exit_zero") and, when it exits zero, the video's title and the audio it
\* extracted, written where the template points once yt-dlp has filled in
\* %(title)s and %(ext)s; a file already there is kept.
yt_dlp_download(f, template, proc) ==
    IF proc.status # "exit_zero" THEN f
    ELSE Let(PathBuf_from(replace(replace(template, TitleTemplate, proc.title),
                                  ExtTemplate, <<"m", "p", "3">>)),
             LAMBDA output : IF exists(f, output) THEN f ELSE fs_write(f, output, proc.data).fs)

\* YtDlpSource::download_audio: [result, fs]
download_audio(f, info, output_dir, proc) ==
    Let(dest_filename(info, output_dir), LAMBDA filename :
    Let(yt_dlp_download(f, filename, proc), LAMBDA after :
    Let(PathBuf_from(filename), LAMBDA dest_path :
        IF proc.status = "spawn_failed" THEN [result |-> Err("ExportFailed"), fs |-> after]
        ELSE IF proc.status # "exit_zero" THEN [result |-> Err("ExportFailed"), fs |-> after]
        ELSE IF exists(after, dest_path) THEN [result |-> Ok(dest_path), fs |-> after]
        ELSE [result |-> Err("ExportFailed"), fs |-> after])))

WatchUrl == <<"h", "t", "t", "p", "s", ":", "/", "/", "w", "w", "w", ".", "y", "o", "u", "t", "u", "b", "e", ".", "c", "o", "m", "/", "w", "a", "t", "c", "h", "?", "v", "=">>

\* YtDlpSource::search_audio; `found` is the run of the search:
\* its status and, when it exits zero, the video id it printed
search_audio(artist, title, found) ==
    IF found.status = "spawn_failed" THEN Err("Io")
    ELSE IF found.status # "exit_zero" THEN Err("ExportFailed")
    ELSE Ok(WatchUrl \o trim(found.id))

\* AudioSource for YtDlpSource::search
source_search(info, found) ==
    IF info.artist # None /\ info.title # None
    THEN Let(search_audio(Unwrap(info.title), Unwrap(info.artist), found), LAMBDA url :
             IF url.ok THEN Ok([info EXCEPT !.youtube_url = Some(url.value)]) ELSE url)
    ELSE Err("MissingInfo")

\* AudioSource for YtDlpSource::fetch: [result, fs]
source_fetch(f, info, dest, found, proc) ==
    Let(IF info.youtube_url # None THEN Ok(info) ELSE source_search(info, found),
        LAMBDA full_info :
            IF ~full_info.ok THEN [result |-> full_info, fs |-> f]
            ELSE Let(download_audio(f, full_info.value, dest, proc), LAMBDA file :
                     IF file.result.ok
                     THEN [result |-> Ok(LocalPath(file.result.value)), fs |-> file.fs]
                     ELSE file))

----------------------------------------------------------------------------
(* main.rs: the commands *)

Youtube == <<"y", "o", "u", "t", "u", "b", "e">>

\* main, "download": the AudioInfo and the playlist the arguments name
download_info(args) ==
    IF contains(to_lowercase(args[1]), Youtube)
    THEN AudioInfo(None, None, None, Some(args[1]))
    ELSE AudioInfo(Some(args[1]), Some(args[2]), None, None)

download_playlist(args) ==
    IF contains(to_lowercase(args[1]), Youtube)
    THEN IF Len(args) >= 2 THEN Some(args[2]) ELSE None
    ELSE IF Len(args) >= 3 THEN Some(args[3]) ELSE None

\* main, "import": the AudioInfo and the playlist the arguments name
import_info(args) == AudioInfo(Some(args[1]), Some(args[2]), None, None)

import_playlist_name(args) == IF Len(args) >= 3 THEN Some(Named(args[3])) ELSE None

----------------------------------------------------------------------------
(* The values the operations are tried on *)

\* The most commands and calls a run of the model makes after the start.
MaxCommands == 2

Mix == <<"m", "i", "x">>

DeviceRoot == <<RootDir, <<"d", "e", "v">>>>

Url == <<"y", "o", "u", "t", "u", "b", "e", ".", "c", "o", "m", "/", "v">>

Audio1 == Bytes(<<1>>)

Audio2 == Bytes(<<2>>)

InfoAT == AudioInfo(Some(<<"A">>), Some(<<"T">>), None, None)

InfoLowerAT == AudioInfo(Some(<<"a">>), Some(<<"t">>), None, None)

InfoNoArtist == AudioInfo(None, Some(<<"T">>), None, None)

InfoNoTitle == AudioInfo(Some(<<"A">>), None, None, None)

InfoUrl == AudioInfo(None, None, None, Some(Url))

InfoAcuteT == AudioInfo(Some(<<"U+00C9">>), Some(<<"T">>), None, None)

InfoLowerAcuteT == AudioInfo(Some(<<"U+00E9">>), Some(<<"t">>), None, None)

\* An AudioInfo as an enumeration yields it: with its file name, of another track.
InfoBU == AudioInfo(Some(<<"B">>), Some(<<"U">>), Some(<<"B", " ", "-", " ", "U", ".", "m", "p", "3">>), None)

CachedAT == join(audio_cache_dir, <<<<"A", " ", "-", " ", "T", ".", "m", "p", "3">>>>)

TemplateAT == join(audio_cache_dir, <<<<"A", " ", "-", " ", "T", ".", "%", "(", "e", "x", "t", ")", "s">>>>)

TemplateSlashT == join(audio_cache_dir, <<<<"_", " ", "-", " ", "T", ".", "%", "(", "e", "x", "t", ")", "s">>>>)

DeviceMix == join(DeviceRoot, <<Mix>>)

DeviceMixAT == join(DeviceMix, <<<<"A", " ", "-", " ", "T", ".", "m", "p", "3">>>>)

DeviceRootAT == join(DeviceRoot, <<<<"a", " ", "-", " ", "t", ".", "f", "l", "a", "c">>>>)

\* A filesystem with the given files and directories, and the directories above them.
RECURSIVE with_parents(_, _)
with_parents(f, key) ==
    IF key = <<>> THEN (<<>> :> Dir) @@ f
    ELSE with_parents((key :> Dir) @@ f, SubSeq(key, 1, Len(key) - 1))

populated(f, entries) ==
    Let({resolve(e[1]) : e \in entries}, LAMBDA keys :
        [k \in DOMAIN f \cup keys
                \cup UNION {{SubSeq(key, 1, n) : n \in 0..(Len(key) - 1)} : key \in keys} |->
            IF k \in keys THEN (CHOOSE e \in entries : resolve(e[1]) = k)[2]
            ELSE IF k \in DOMAIN f THEN f[k] ELSE Dir])

\* What the directories hold when the program starts, the directory the
\* user names for the device (the cache's audio directory when none is
\* named) and the order in which the filesystem lists a directory.
DeviceFiles ==
    {<<DeviceMix, Dir>>, <<DeviceMixAT, File(Audio1)>>, <<DeviceRootAT, File(Audio2)>>}

Starts ==
    { [files |-> {}, dirpath |-> DeviceRoot, descending |-> FALSE],
      [files |-> {<<CachedAT, File(Audio2)>>}, dirpath |-> audio_cache_dir,
       descending |-> FALSE],
      [files |-> {<<CachedAT, File(Audio2)>>} \cup DeviceFiles, dirpath |-> DeviceRoot,
       descending |-> TRUE],
      [files |-> {<<TemplateAT, File(Audio1)>>, <<TemplateSlashT, File(Audio1)>>},
       dirpath |-> DeviceRoot, descending |-> FALSE],
      [files |-> {<<CachedAT, File(Audio2)>>,
                  <<playlist_cache, File(JsonText(<< <<Mix, <<InfoAT>> >> >>))>>}
                 \cup DeviceFiles,
       dirpath |-> DeviceRoot, descending |-> FALSE] }

IoOutcomes == {"ok", "create_failed", "write_failed"}

SearchRuns ==
    {[status |-> "spawn_failed", id |-> <<>>], [status |-> "exit_nonzero", id |-> <<>>],
     [status |-> "exit_zero", id |-> <<"v", " ">>]}

NotRun == [status |-> "not_run", id |-> <<>>]

DownloadRuns ==
    {[status |-> "spawn_failed", title |-> <<>>, data |-> Empty],
     [status |-> "exit_nonzero", title |-> <<>>, data |-> Empty],
     [status |-> "exit_zero", title |-> <<"A", " ", " ", "-", " ", "T">>, data |-> Audio2]}

DownloadArgs == {<<<<"A">>, <<"T">>>>, <<<<"a">>, <<"t">>>>, <<<<"/">>, <<"T">>, Mix>>, <<Url, Mix>>}

ImportArgs == {<<<<"a">>, <<"t">>>>, <<<<"A">>, <<"T">>, Mix>>}

SearchArgs == {<<<<"a">>, <<"T">>>>}

AddInfos == {InfoAT, InfoLowerAT, InfoNoArtist}

AddLocations == {LocalPath(CachedAT), LocalPath(DeviceMixAT), RemoteUrl(Url)}

PlaylistOptions == {None, Some(Mix)}

SearchInfos == {InfoAT, InfoLowerAT, InfoAcuteT, InfoNoArtist, InfoNoTitle, InfoUrl}

FetchInfos == {InfoAT, InfoAcuteT, InfoNoTitle}

FetchDests == {audio_cache_dir, DeviceRoot}

ContainsInfos == {InfoLowerAT, InfoAcuteT, InfoNoArtist}

ImportSources == {LocalPath(CachedAT), LocalPath(DeviceRootAT), RemoteUrl(Url)}

ImportInfos == {InfoAT, InfoBU}

ImportPlaylists == {None, Some(Uncategorized), Some(Named(Mix))}

----------------------------------------------------------------------------
(* The program *)

\* main: the cache and the device are constructed before the first command
Init ==
    \E start \in Starts :
      \E f0 \in {populated(setup_app_directories(with_parents(EmptyMap, Cwd)).fs,
                           start.files \cup {<<DeviceRoot, Dir>>})} :
        \E new \in {LocalCache_new(f0, start.descending)} :
            /\ descending = start.descending
            /\ commands = 0
            /\ fs = new.fs
            /\ cache = new.cache
            /\ device = AttachedDevice_new(display(start.dirpath), start.dirpath,
                                           new.fs, start.descending)
            /\ last = [op |-> "new"]
            /\ before = [fs |-> f0, cache |-> new.cache, last |-> [op |-> "start"]]

\* A restart on a filesystem that lists a directory in another order each
\* time it is read.
RestartListedOtherwise ==
    \E new \in {LocalCache_new(fs, ~descending)} :
        /\ fs' = new.fs
        /\ cache' = new.cache
        /\ device' = AttachedDevice_new(device.name, device.path, new.fs, ~descending)
        /\ last' = [op |-> "restart"]
        /\ descending' = ~descending

\* The program is stopped and started again on the same directories.
Restart ==
    \E new \in {LocalCache_new(fs, descending)} :
        /\ fs' = new.fs
        /\ cache' = new.cache
        /\ device' = AttachedDevice_new(device.name, device.path, new.fs, descending)
        /\ last' = [op |-> "restart"]
        /\ UNCHANGED descending

\* download putting the track on the playlist whether or not it was fetched.
CmdDownloadListed ==
    \E args \in DownloadArgs, proc \in DownloadRuns :
      \E info \in {download_info(args)}, playlist \in {download_playlist(args)} :
        \E found \in IF info.youtube_url # None THEN {NotRun} ELSE SearchRuns :
          \E fetched \in {source_fetch(fs, info, audio_cache_dir, found, proc)} :
            \E io \in IF playlist # None THEN IoOutcomes ELSE {"ok"},
               keys \in IF playlist # None
                        THEN iteration_orders(DOMAIN cache.playlists \cup {Unwrap(playlist)})
                        ELSE {<<>>} :
              /\ IF fetched.result.ok
                 THEN \E added \in {add_to_cache(cache, fetched.fs, info,
                                                 fetched.result.value, playlist, keys, io)} :
                          cache' = added.cache /\ fs' = added.fs
                 ELSE IF playlist # None
                 THEN \E added \in {add_to_playlist(cache, fetched.fs, Unwrap(playlist), info,
                                                    keys, io)} :
                          cache' = added.cache /\ fs' = added.fs
                 ELSE cache' = cache /\ fs' = fetched.fs
              /\ last' = [op |-> "download", info |-> info, playlist |-> playlist,
                          result |-> fetched.result, io |-> io,
                          found |-> found.status, status |-> proc.status]
              /\ UNCHANGED <<descending, device>>

\* main, "download"
CmdDownload ==
    \E args \in DownloadArgs, proc \in DownloadRuns :
      \E info \in {download_info(args)}, playlist \in {download_playlist(args)} :
        \E found \in IF info.youtube_url # None THEN {NotRun} ELSE SearchRuns :
          \E fetched \in {source_fetch(fs, info, audio_cache_dir, found, proc)} :
            \E io \in IF fetched.result.ok /\ playlist # None THEN IoOutcomes ELSE {"ok"},
               keys \in IF fetched.result.ok /\ playlist # None
                        THEN iteration_orders(DOMAIN cache.playlists \cup {Unwrap(playlist)})
                        ELSE {<<>>} :
              /\ IF fetched.result.ok
                 THEN \E added \in {add_to_cache(cache, fetched.fs, info,
                                                 fetched.result.value, playlist, keys, io)} :
                          cache' = added.cache /\ fs' = added.fs
                 ELSE cache' = cache /\ fs' = fetched.fs
              /\ last' = [op |-> "download", info |-> info, playlist |-> playlist,
                          result |-> fetched.result, io |-> io,
                          found |-> found.status, status |-> proc.status]
              /\ UNCHANGED <<descending, device>>

\* main, "import"
CmdImport ==
    \E args \in ImportArgs :
      \E info \in {import_info(args)}, playlist \in {import_playlist_name(args)} :
        \E location \in {search(cache, info)} :
          /\ IF location.ok
             THEN \E imported \in {import(device, fs, location.value, info, playlist)} :
                      /\ fs' = imported.fs
                      /\ last' = [op |-> "import_cmd", info |-> info, playlist |-> playlist,
                                  location |-> location, result |-> imported.result]
             ELSE /\ fs' = fs
                  /\ last' = [op |-> "import_cmd", info |-> info, playlist |-> playlist,
                              location |-> location, result |-> location]
          /\ UNCHANGED <<descending, cache, device>>

\* main, "search"
CmdSearch ==
    \E args \in SearchArgs :
      \E info \in {AudioInfo(Some(args[1]), Some(args[2]), None, None)} :
        /\ last' = [op |-> "search_cmd", info |-> info, result |-> search(cache, info)]
        /\ UNCHANGED <<fs, descending, cache, device>>

\* LocalCache::add_to_cache
AddToCache ==
    \E info \in AddInfos, location \in AddLocations, playlist \in PlaylistOptions :
      \E io \in IF playlist # None THEN IoOutcomes ELSE {"ok"},
         keys \in IF playlist # None
                  THEN iteration_orders(DOMAIN cache.playlists \cup {Unwrap(playlist)})
                  ELSE {<<>>} :
        \E added \in {add_to_cache(cache, fs, info, location, playlist, keys, io)} :
            /\ cache' = added.cache
            /\ fs' = added.fs
            /\ last' = [op |-> "add_to_cache", info |-> info, location |-> location,
                        playlist |-> playlist, io |-> io]
            /\ UNCHANGED <<descending, device>>

\* LocalCache::search
Search ==
    \E info \in SearchInfos :
        /\ last' = [op |-> "search", info |-> info, result |-> search(cache, info)]
        /\ UNCHANGED <<fs, descending, cache, device>>

\* AudioSource for LocalCache::fetch
Fetch ==
    \E info \in FetchInfos, dest \in FetchDests :
      \E fetched \in {cache_fetch(cache, fs, info, dest)} :
          /\ fs' = fetched.fs
          /\ last' = [op |-> "fetch", info |-> info, dest |-> dest,
                      result |-> fetched.result]
          /\ UNCHANGED <<descending, cache, device>>

\* AttachedDevice::import
Import ==
    \E location \in ImportSources, info \in ImportInfos, playlist \in ImportPlaylists :
      \E imported \in {import(device, fs, location, info, playlist)} :
          /\ fs' = imported.fs
          /\ last' = [op |-> "import", location |-> location, info |-> info,
                      playlist |-> playlist, result |-> imported.result]
          /\ UNCHANGED <<descending, cache, device>>

\* AttachedDevice::contains
Contains ==
    \E info \in ContainsInfos :
      /\ last' = [op |-> "contains", info |-> info, result |-> device_contains(device, info)]
      /\ UNCHANGED <<fs, descending, cache, device>>

\* One more command or call is made, of which `before` keeps the state it began in.
Step(A) ==
    /\ commands < MaxCommands
    /\ commands' = commands + 1
    /\ before' = [fs |-> fs, cache |-> cache, last |-> last]
    /\ A

\* The commands of main.
Next ==
    \/ Step(Restart)
    \/ Step(CmdDownload)
    \/ Step(CmdImport)
    \/ Step(CmdSearch)

Spec == Init /\ [][Next]_vars

\* The calls on the cache and on the device.
LibNext ==
    \/ Step(AddToCache)
    \/ Step(Search)
    \/ Step(Fetch)
    \/ Step(Import)
    \/ Step(Contains)

LibSpec == Init /\ [][LibNext]_vars

----------------------------------------------------------------------------
(* AudioKey::from_info on its own *)

KeyArtists == {None, Some(<<"A">>), Some(<<"a">>), Some(<<"U+00C9">>), Some(<<"U+00E9">>), Some(<<"A", " ">>)}

KeyTitles == {None, Some(<<"T">>), Some(<<"t">>)}

KeyInfos == {AudioInfo(artist, title, None, None) : artist \in KeyArtists, title \in KeyTitles}

NotBuilt == [name |-> <<>>, path |-> <<>>, index |-> EmptyMap]

\* Two AudioInfo values, no cache and no device.
KeyInit ==
    \E a \in KeyInfos, b \in KeyInfos :
        /\ last = [op |-> "infos", a |-> a, b |-> b]
        /\ fs = with_parents(EmptyMap, Cwd)
        /\ descending = FALSE
        /\ cache = [audio_dir |-> audio_cache_dir, index |-> EmptyMap,
                    playlists |-> EmptyMap, playlists_path |-> playlist_cache]
        /\ device = NotBuilt
        /\ before = [fs |-> fs, cache |-> cache, last |-> [op |-> "start"]]
        /\ commands = 0

\* AudioKey::from_info, of audio.rs and of device.rs, on each of the two
FromInfo ==
    /\ last.op = "infos"
    /\ last' = [op |-> "from_info", a |-> last.a, b |-> last.b,
                key_a |-> from_info(last.a), key_b |-> from_info(last.b),
                device_key_a |-> device_from_info(last.a),
                device_key_b |-> device_from_info(last.b)]
    /\ UNCHANGED <<fs, descending, cache, device>>

KeyNext == Step(FromInfo)

KeySpec == KeyInit /\ [][KeyNext]_vars

----------------------------------------------------------------------------
(* The claims *)

\* The AudioInfo values the cache is asked for after an operation.
Probes == {InfoAT, InfoLowerAT, InfoAcuteT, InfoLowerAcuteT, InfoNoArtist}

\* C1 - Cache round-trip: right after add_to_cache(info, LocalPath(p), None)
\* with artist and title present, search(info') is LocalPath(p) for every
\* info' with the same lowercased (artist, title), also when the key was
\* mapped to another path before: the last path added is the one found.
C1_CacheRoundTrip ==
    (/\ last.op = "add_to_cache"
     /\ last.location.kind = "LocalPath"
     /\ last.playlist = None
     /\ last.info.artist # None /\ last.info.title # None)
    => \A probe \in Probes :
           (/\ probe.artist # None /\ probe.title # None
            /\ to_lowercase(Unwrap(probe.artist)) = to_lowercase(Unwrap(last.info.artist))
            /\ to_lowercase(Unwrap(probe.title)) = to_lowercase(Unwrap(last.info.title)))
           => search(cache, probe) = Ok(last.location)

\* C1's case: a second add_to_cache, under another spelling of a key the
\* first one mapped to another path, after which the new path is found.
C1_Witness ==
    /\ last.op = "add_to_cache" /\ before.last.op = "add_to_cache"
    /\ last.playlist = None /\ before.last.playlist = None
    /\ last.info = InfoLowerAT /\ before.last.info = InfoAT
    /\ last.location = LocalPath(DeviceMixAT) /\ before.last.location = LocalPath(CachedAT)
    /\ search(before.cache, InfoAT) = Ok(LocalPath(CachedAT))
    /\ search(cache, InfoAT) = Ok(LocalPath(DeviceMixAT))

basename(p) == p[Len(p)]

\* The audio files directly in the cache's audio directory.
cached_audio ==
    {<<RootDir>> \o k : k \in {k \in DOMAIN fs : /\ Len(k) = Len(resolve(audio_cache_dir)) + 1
                                               /\ resolve(parent(<<RootDir>> \o k)[1])
                                                      = resolve(audio_cache_dir)
                                               /\ is_supported_audio_file(fs, <<RootDir>> \o k)}}

\* C3 - One file per identity: whatever downloads were made, no two audio
\* files of the cache's audio directory have file names that derive the
\* same AudioKey.
C3_OneFilePerIdentity ==
    \A p \in cached_audio, q \in cached_audio :
        \E key \in {from_info(from_filename(<<basename(p)>>))} :
            (p # q /\ key # None) => key # from_info(from_filename(<<basename(q)>>))

\* C4 - Overlay within store: every AudioInfo of the playlist overlay
\* resolves through search to a file that exists in the cache's audio
\* directory.
C4_OverlayWithinStore ==
    \A name \in DOMAIN cache.playlists :
        \A i \in DOMAIN cache.playlists[name] :
            \E found \in {search(cache, cache.playlists[name][i])} :
                /\ found.ok
                /\ is_file(fs, found.value.path)
                /\ parent(found.value.path) = Some(cache.audio_dir)

\* C5 - Index invariant: every value of the index is the path of a file
\* that exists, directly in the cache's audio directory.
C5_IndexedFilesExist ==
    \A key \in DOMAIN cache.index :
        /\ is_file(fs, cache.index[key])
        /\ parent(cache.index[key]) = Some(cache.audio_dir)

\* C6 - Import fidelity: when import(LocalPath(p), info, playlist) of an
\* existing file p returns Ok(LocalPath(d)), d exists with the content p had
\* before the call, and p still exists with that content.
C6_ImportFidelity ==
    (/\ last.op = "import"
     /\ last.location.kind = "LocalPath"
     /\ is_file(before.fs, last.location.path)
     /\ last.result.ok)
    => \E p \in {resolve(last.location.path)}, d \in {last.result.value.path} :
           /\ is_file(fs, d)
           /\ fs[resolve(d)].data = before.fs[p].data
           /\ is_file(fs, last.location.path)
           /\ fs[p].data = before.fs[p].data

\* C7 - Import destination: a successful import(LocalPath(p), info, playlist)
\* returns LocalPath(root/name/basename(p)) for Some(Named(name)) and
\* LocalPath(root/basename(p)) for None and Some(Uncategorized), whatever
\* info is, and the directory it names exists afterwards.
C7_ImportDestination ==
    (last.op = "import" /\ last.result.ok)
    => \E dir \in {IF last.playlist = None \/ last.playlist = Some(Uncategorized)
                   THEN device.path
                   ELSE Append(device.path, Unwrap(last.playlist).name)} :
           /\ last.result.value = LocalPath(Append(dir, basename(last.location.path)))
           /\ is_dir(fs, dir)

\* C7's case: an import to a named playlist whose directory did not exist,
\* with an info of another track than the file.
C7_Witness ==
    /\ last.op = "import" /\ last.result.ok
    /\ last.playlist = Some(Named(Mix))
    /\ last.info = InfoBU
    /\ ~is_dir(before.fs, Append(device.path, Mix))
    /\ is_dir(fs, Append(device.path, Mix))
    /\ last.result.value = LocalPath(device.path \o <<Mix, basename(CachedAT)>>)

\* C8 - import with a RemoteUrl source location returns ExportFailed and
\* leaves the filesystem as it was: no directory made, no file written.
C8_RemoteUrlRefused ==
    (last.op = "import" /\ last.location.kind = "RemoteUrl")
    => last.result = Err("ExportFailed") /\ fs = before.fs

\* C8's case: a RemoteUrl import to a named playlist that has no directory.
C8_Witness ==
    /\ last.op = "import" /\ last.location = RemoteUrl(Url)
    /\ last.playlist = Some(Named(Mix))
    /\ ~is_dir(fs, Append(device.path, Mix))
    /\ last.result = Err("ExportFailed")

\* C9 - Missing-info precedence: LocalCache search and fetch and
\* AttachedDevice contains return MissingInfo for an AudioInfo without
\* artist or without title, whatever is indexed, and NotFound for one with
\* both whose key has no index entry.
C9_MissingInfoFirst ==
    last.op \in {"search", "fetch", "contains"}
    => \E index \in {IF last.op = "contains" THEN device.index ELSE cache.index} :
           IF last.info.artist = None \/ last.info.title = None
           THEN last.result = Err("MissingInfo")
           ELSE AudioKey(to_lowercase(Unwrap(last.info.artist)),
                         to_lowercase(Unwrap(last.info.title))) \notin DOMAIN index
                    => last.result = Err("NotFound")

\* C9's case: a search without artist for a title that is indexed.
C9_Witness ==
    /\ last.op = "search" /\ last.info = InfoNoArtist
    /\ \E key \in DOMAIN cache.index : key.title = to_lowercase(Unwrap(InfoNoArtist.title))
    /\ last.result = Err("MissingInfo")

\* u8::to_ascii_lowercase on a character
to_ascii_lowercase(c) ==
    IF \E i \in DOMAIN UpperAscii : UpperAscii[i] = c
    THEN LowerAscii[CHOOSE i \in DOMAIN UpperAscii : UpperAscii[i] = c]
    ELSE c

\* str::eq_ignore_ascii_case
eq_ignore_ascii_case(s, t) ==
    Len(s) = Len(t) /\ \A i \in 1..Len(s) : to_ascii_lowercase(s[i]) = to_ascii_lowercase(t[i])

\* C10 - Key normalization: from_info is defined exactly when artist and
\* title are present, and two AudioInfo values with both present have equal
\* keys exactly when their artists and their titles are equal up to ASCII case.
C10_KeysEqualUpToAsciiCase ==
    last.op = "from_info" =>
        /\ (last.key_a # None) <=> (last.a.artist # None /\ last.a.title # None)
        /\ (last.device_key_a # None) <=> (last.a.artist # None /\ last.a.title # None)
        /\ (last.key_a # None /\ last.key_b # None)
           => \E same \in {/\ eq_ignore_ascii_case(Unwrap(last.a.artist), Unwrap(last.b.artist))
                           /\ eq_ignore_ascii_case(Unwrap(last.a.title), Unwrap(last.b.title))} :
                  /\ (last.key_a = last.key_b) <=> same
                  /\ (last.device_key_a = last.device_key_b) <=> same

----------------------------------------------------------------------------
(* The cache on its own: what its directory may hold when it is constructed *)

Rock == <<"r", "o", "c", "k">>

Jazz == <<"j", "a", "z", "z">>

CachedLowerAT == join(audio_cache_dir, <<<<"a", " ", "-", " ", "t", ".", "m", "p", "3">>>>)

CachedBU == join(audio_cache_dir, <<<<"B", " ", "-", " ", "U", ".", "m", "p", "3">>>>)

\* What yt-dlp downloads and leaves behind when it cannot be converted.
CachedWebm == join(audio_cache_dir, <<<<"C", " ", "-", " ", "V", ".", "w", "e", "b", "m">>>>)

\* The audio directory seen through a path that goes down and up again.
AudioDirAlias == audio_cache_dir \o <<ParentDir, <<"a", "u", "d", "i", "o">>>>

\* A playlists.json of two playlists, every entry of which is cached.
OverlayResolved ==
    File(JsonText(<< <<Mix, <<InfoAT, InfoBU>> >>, <<Rock, <<InfoLowerAT>> >> >>))

\* A playlists.json with an entry that has no artist and one that is not cached.
OverlayMissingInfo ==
    File(JsonText(<< <<Mix, <<InfoAT, InfoNoArtist, InfoBU>> >>, <<Rock, <<InfoBU, InfoNoArtist>> >> >>))

\* What the cache's directory holds when the cache is constructed.
CacheContents ==
    { {},
      {<<CachedAT, File(Audio2)>>, <<CachedLowerAT, File(Audio1)>>},
      {<<CachedAT, File(Audio2)>>, <<CachedBU, File(Audio1)>>, <<playlist_cache, OverlayResolved>>},
      {<<CachedAT, File(Audio2)>>, <<playlist_cache, OverlayMissingInfo>>},
      {<<CachedAT, File(Audio2)>>, <<CachedLowerAT, File(Audio1)>>,
       <<playlist_cache, File(Audio1)>>},
      {<<CachedAT, File(Audio2)>>, <<CachedWebm, File(Audio1)>>,
       <<playlist_cache, OverlayResolved>>} }

PlaylistNames == {Mix, Rock, Jazz}

CacheFetchInfos == {InfoAT, InfoBU, InfoNoTitle}

CacheFetchDests == {audio_cache_dir, DeviceRoot, AudioDirAlias}

\* The cache and the (empty) device, constructed on one of the directories.
CacheInit ==
    \E files \in CacheContents, desc \in BOOLEAN :
      \E f0 \in {populated(setup_app_directories(with_parents(EmptyMap, Cwd)).fs,
                           files \cup {<<DeviceRoot, Dir>>})} :
        \E new \in {LocalCache_new(f0, desc)} :
            /\ descending = desc
            /\ commands = 0
            /\ fs = new.fs
            /\ cache = new.cache
            /\ device = AttachedDevice_new(display(DeviceRoot), DeviceRoot, new.fs, desc)
            /\ last = [op |-> "new"]
            /\ before = [fs |-> f0, cache |-> new.cache, last |-> [op |-> "start"]]

\* LocalCache::search_playlist
SearchPlaylist ==
    \E name \in PlaylistNames :
        /\ last' = [op |-> "search_playlist", name |-> name,
                    result |-> search_playlist(cache, name)]
        /\ UNCHANGED <<fs, descending, cache, device>>

\* AudioSource for LocalCache::fetch, to a directory that may be the audio
\* directory under another spelling
FetchTo ==
    \E info \in CacheFetchInfos, dest \in CacheFetchDests :
      \E fetched \in {cache_fetch(cache, fs, info, dest)} :
          /\ fs' = fetched.fs
          /\ last' = [op |-> "fetch", info |-> info, dest |-> dest,
                      result |-> fetched.result]
          /\ UNCHANGED <<descending, cache, device>>

\* LocalCache::save_playlists of the overlay as it is
SavePlaylists ==
    \E keys \in iteration_orders(DOMAIN cache.playlists) :
      \E saved \in {save_playlists(cache, fs, keys, "ok")} :
          /\ fs' = saved.fs
          /\ last' = [op |-> "save_playlists", keys |-> keys, ok |-> saved.ok]
          /\ UNCHANGED <<descending, cache, device>>

CacheAddPlaylists == {None, Some(Mix), Some(Jazz)}

\* LocalCache::add_to_cache of a track of the audio directory, to no
\* playlist, to one the overlay may have and to one it has not
CacheAdd ==
    \E playlist \in CacheAddPlaylists :
      \E io \in IF playlist # None THEN IoOutcomes ELSE {"ok"},
         keys \in IF playlist # None
                  THEN iteration_orders(DOMAIN cache.playlists \cup {Unwrap(playlist)})
                  ELSE {<<>>} :
        \E added \in {add_to_cache(cache, fs, InfoBU, LocalPath(CachedBU), playlist, keys, io)} :
            /\ cache' = added.cache
            /\ fs' = added.fs
            /\ last' = [op |-> "add_to_cache", info |-> InfoBU,
                        location |-> LocalPath(CachedBU), playlist |-> playlist, io |-> io]
            /\ UNCHANGED <<descending, device>>

\* AudioIndex for LocalCache::list_playlists
CacheListPlaylists ==
    /\ \E keys \in iteration_orders(DOMAIN cache.playlists) :
           last' = [op |-> "cache_list_playlists",
                    result |-> cache_list_playlists(cache, fs, descending, keys)]
    /\ UNCHANGED <<fs, descending, cache, device>>

CacheNext ==
    \/ Step(Restart)
    \/ Step(SearchPlaylist)
    \/ Step(FetchTo)
    \/ Step(SavePlaylists)
    \/ Step(CacheAdd)
    \/ Step(CacheListPlaylists)

CacheSpec == CacheInit /\ [][CacheNext]_vars

----------------------------------------------------------------------------
(* The device on its own: what its directory may hold when it is attached *)

\* A device directory named relative to the working directory.
RelativeRoot == <<<<"d", "e", "v">>>>

Deep == <<"d", "e", "e", "p">>

Hidden == <<".", "x">>

NamedBU == <<"B", " ", "-", " ", "U", ".", "m", "p", "3">>

\* A device tree under `root`: a playlist directory with a track, another
\* file and a directory below it, an empty playlist directory, a hidden
\* directory and the system's one, each with a track.
DeviceTree(root) ==
    {<<join(root, <<Mix>>), Dir>>,
     <<join(root, <<Mix, NamedBU>>), File(Audio1)>>,
     <<join(root, <<Mix, <<"n", ".", "t", "x", "t">>>>), File(Audio1)>>,
     <<join(root, <<Mix, Deep>>), Dir>>,
     <<join(root, <<Mix, Deep, <<"C", " ", "-", " ", "V", ".", "m", "p", "3">>>>), File(Audio1)>>,
     <<join(root, <<Rock>>), Dir>>,
     <<join(root, <<Hidden>>), Dir>>,
     <<join(root, <<Hidden, <<"D", " ", "-", " ", "W", ".", "m", "p", "3">>>>), File(Audio1)>>,
     <<join(root, <<SystemVolumeInformation>>), Dir>>,
     <<join(root, <<SystemVolumeInformation, <<"E", " ", "-", " ", "X", ".", "m", "p", "3">>>>), File(Audio1)>>}

\* The files directly in `root`: a track, a resource fork and a text file.
RootFiles(root) ==
    {<<join(root, <<<<"a", " ", "-", " ", "t", ".", "f", "l", "a", "c">>>>), File(Audio2)>>,
     <<join(root, <<<<".", "_", "a", " ", "-", " ", "t", ".", "m", "p", "3">>>>), File(Audio1)>>,
     <<join(root, <<<<"n", ".", "t", "x", "t">>>>), File(Audio1)>>}

DeviceRoots == {DeviceRoot, RelativeRoot}

DeviceContents(root) ==
    {{}, DeviceTree(root), DeviceTree(root) \cup RootFiles(root)}

\* The cache with one track and the device, constructed on one of the trees.
DeviceInit ==
    \E root \in DeviceRoots, desc \in BOOLEAN :
      \E files \in DeviceContents(root) :
        \E f0 \in {populated(setup_app_directories(with_parents(EmptyMap, Cwd)).fs,
                             files \cup {<<root, Dir>>, <<DeviceRoot, Dir>>,
                                         <<CachedAT, File(Audio2)>>})} :
          \E new \in {LocalCache_new(f0, desc)} :
            /\ descending = desc
            /\ commands = 0
            /\ fs = new.fs
            /\ cache = new.cache
            /\ device = AttachedDevice_new(display(root), root, new.fs, desc)
            /\ last = [op |-> "new"]
            /\ before = [fs |-> f0, cache |-> new.cache, last |-> [op |-> "start"]]

\* AudioIndex for AttachedDevice::list_playlists, as the "list" command calls it
ListPlaylists ==
    /\ last' = [op |-> "list_playlists",
                result |-> list_playlists(fs, descending, device.path)]
    /\ UNCHANGED <<fs, descending, cache, device>>

\* AttachedDevice::new on the directory as it is now
Attach ==
    /\ device' = AttachedDevice_new(device.name, device.path, fs, descending)
    /\ last' = [op |-> "attach"]
    /\ UNCHANGED <<fs, descending, cache>>

DeviceImportSources == {LocalPath(CachedAT), LocalPath(DeviceRootAT)}

\* Playlist names the user can type that are not one directory name: the
\* parent directory, an absolute path and a path of two components.
ParentName == <<".", ".">>

AbsoluteName == <<"/", "o", "u", "t">>

NestedName == <<"a", "/", "b">>

DeviceImportPlaylists ==
    {None, Some(Named(Mix)), Some(Named(Hidden)),
     Some(Named(ParentName)), Some(Named(AbsoluteName)), Some(Named(NestedName))}

\* An import that scans the device again when it has copied.
DeviceImportAndRescan ==
    \E location \in DeviceImportSources, playlist \in DeviceImportPlaylists :
      \E imported \in {import(device, fs, location, InfoAT, playlist)} :
          /\ fs' = imported.fs
          /\ device' = AttachedDevice_new(device.name, device.path, imported.fs, descending)
          /\ last' = [op |-> "import", location |-> location, info |-> InfoAT,
                      playlist |-> playlist, result |-> imported.result]
          /\ UNCHANGED <<descending, cache>>

\* AttachedDevice::import, to the root, to a playlist, to a hidden directory
\* and to the directories of the names that are paths
DeviceImport ==
    \E location \in DeviceImportSources, playlist \in DeviceImportPlaylists :
      \E imported \in {import(device, fs, location, InfoAT, playlist)} :
          /\ fs' = imported.fs
          /\ last' = [op |-> "import", location |-> location, info |-> InfoAT,
                      playlist |-> playlist, result |-> imported.result]
          /\ UNCHANGED <<descending, cache, device>>

DeviceNext ==
    \/ Step(ListPlaylists)
    \/ Step(Attach)
    \/ Step(DeviceImport)
    \/ Step(Contains)

DeviceSpec == DeviceInit /\ [][DeviceNext]_vars

----------------------------------------------------------------------------
(* The playlist commands of main *)

InfoCV == AudioInfo(Some(<<"C">>), Some(<<"V">>), None, None)

CachedCV == join(audio_cache_dir, <<<<"C", " ", "-", " ", "V", ".", "m", "p", "3">>>>)

Audio3 == Bytes(<<3>>)

\* A playlists.json with a playlist of three tracks and one of a single track.
OverlayThree ==
    File(JsonText(<< <<Mix, <<InfoAT, InfoBU, InfoCV>> >>, <<Rock, <<InfoLowerAT>> >> >>))

\* What the cache's directory holds when the program starts: every track of
\* the playlists, all but one of them, a playlist with an entry that has no
\* artist, or a track and no playlist.
PlaylistCaches ==
    { {<<CachedAT, File(Audio1)>>, <<CachedBU, File(Audio2)>>, <<CachedCV, File(Audio3)>>,
       <<playlist_cache, OverlayThree>>},
      {<<CachedAT, File(Audio1)>>, <<CachedCV, File(Audio3)>>,
       <<playlist_cache, OverlayThree>>},
      {<<CachedAT, File(Audio1)>>, <<playlist_cache, OverlayMissingInfo>>},
      {<<CachedAT, File(Audio1)>>} }

\* What the device holds: nothing, a directory where the second or the third
\* track is to go, a file where the playlist directory is to go, or an older
\* copy of the first track.
PlaylistDevices ==
    { {},
      {<<join(DeviceMix, <<NamedBU>>), Dir>>},
      {<<join(DeviceMix, <<<<"C", " ", "-", " ", "V", ".", "m", "p", "3">>>>), Dir>>},
      {<<DeviceMix, File(Audio1)>>},
      {<<DeviceMixAT, File(Audio3)>>} }

\* The words after the command.
PlaylistArgs == {<<>>, <<Mix>>, <<Rock>>, <<Jazz>>}

PlaylistInit ==
    \E files \in PlaylistCaches, on_device \in PlaylistDevices, desc \in BOOLEAN :
      \E f0 \in {populated(setup_app_directories(with_parents(EmptyMap, Cwd)).fs,
                           files \cup on_device \cup {<<DeviceRoot, Dir>>})} :
        \E new \in {LocalCache_new(f0, desc)} :
            /\ descending = desc
            /\ commands = 0
            /\ fs = new.fs
            /\ cache = new.cache
            /\ device = AttachedDevice_new(display(DeviceRoot), DeviceRoot, new.fs, desc)
            /\ last = [op |-> "new"]
            /\ before = [fs |-> f0, cache |-> new.cache, last |-> [op |-> "start"]]

\* The program has panicked: it takes no further command until it is started again.
stopped == "panicked" \in DOMAIN last /\ last.panicked

\* The loop of import_playlist going on to the next entry when an import fails.
RECURSIVE import_playlist_skipping(_, _, _, _, _)
import_playlist_skipping(d, f, playlist_contents, playlist_name, imported) ==
    IF playlist_contents = <<>> THEN [fs |-> f, imported |-> imported, panicked |-> FALSE]
    ELSE Let(import(d, f, playlist_contents[1][2], playlist_contents[1][1],
                    Some(Named(playlist_name))),
             LAMBDA done :
                 import_playlist_skipping(d, done.fs, Tail(playlist_contents), playlist_name,
                                          IF done.result.ok THEN imported + 1 ELSE imported))

\* main, "import_playlist": the loop over the pairs that search_playlist
\* returned, [fs, imported, panicked]; `imported` counts the imports that
\* succeeded, and expect panics on the first that fails
RECURSIVE import_playlist(_, _, _, _, _)
import_playlist(d, f, playlist_contents, playlist_name, imported) ==
    IF playlist_contents = <<>> THEN [fs |-> f, imported |-> imported, panicked |-> FALSE]
    ELSE Let(import(d, f, playlist_contents[1][2], playlist_contents[1][1],
                    Some(Named(playlist_name))),
             LAMBDA done :
                 IF ~done.result.ok
                 THEN [fs |-> done.fs, imported |-> imported, panicked |-> TRUE]
                 ELSE import_playlist(d, done.fs, Tail(playlist_contents), playlist_name,
                                      imported + 1))

\* main, "list_playlists": the names as the HashMap yields them
CmdListPlaylists ==
    /\ ~stopped
    /\ \E names \in iteration_orders(DOMAIN cache.playlists) :
           last' = [op |-> "list_playlists_cmd", printed |-> names]
    /\ UNCHANGED <<fs, descending, cache, device>>

\* main, "show_playlist"
CmdShowPlaylist ==
    /\ ~stopped
    /\ \E args \in PlaylistArgs :
           last' = IF args = <<>>
                   THEN [op |-> "show_playlist", args |-> args, panicked |-> TRUE]
                   ELSE [op |-> "show_playlist", args |-> args, panicked |-> FALSE,
                         found |-> search_playlist(cache, args[1])]
    /\ UNCHANGED <<fs, descending, cache, device>>

\* import_playlist importing the entries that resolve, whatever the others do.
CmdImportPlaylistResolved ==
    /\ ~stopped
    /\ \E args \in PlaylistArgs :
         IF args = <<>>
         THEN /\ last' = [op |-> "import_playlist", args |-> args, panicked |-> TRUE]
              /\ fs' = fs
         ELSE \E found \in {search_playlist_resolved(cache, args[1])} :
                IF ~found.ok
                THEN /\ last' = [op |-> "import_playlist", args |-> args,
                                 panicked |-> FALSE, found |-> found, imported |-> 0]
                     /\ fs' = fs
                ELSE \E done \in {import_playlist(device, fs, found.value, args[1], 0)} :
                       /\ last' = [op |-> "import_playlist", args |-> args,
                                   panicked |-> done.panicked, found |-> found,
                                   imported |-> done.imported]
                       /\ fs' = done.fs
    /\ UNCHANGED <<descending, cache, device>>

\* main, "import_playlist"
CmdImportPlaylist ==
    /\ ~stopped
    /\ \E args \in PlaylistArgs :
         IF args = <<>>
         THEN /\ last' = [op |-> "import_playlist", args |-> args, panicked |-> TRUE]
              /\ fs' = fs
         ELSE \E found \in {search_playlist(cache, args[1])} :
                IF ~found.ok
                THEN /\ last' = [op |-> "import_playlist", args |-> args,
                                 panicked |-> FALSE, found |-> found, imported |-> 0]
                     /\ fs' = fs
                ELSE \E done \in {import_playlist(device, fs, found.value, args[1], 0)} :
                       /\ last' = [op |-> "import_playlist", args |-> args,
                                   panicked |-> done.panicked, found |-> found,
                                   imported |-> done.imported]
                       /\ fs' = done.fs
    /\ UNCHANGED <<descending, cache, device>>

PlaylistNext ==
    \/ Step(Restart)
    \/ Step(CmdListPlaylists)
    \/ Step(CmdShowPlaylist)
    \/ Step(CmdImportPlaylist)

PlaylistSpec == PlaylistInit /\ [][PlaylistNext]_vars

----------------------------------------------------------------------------
(* AudioInfo::from_filename on its own *)

\* U+2013 between two spaces.
SpacedEnDash == <<" ", "U+2013", " ">>

NameLefts == {<<"A">>, <<" ", "A">>, <<"T", "h", "e", " ", "B", "e", "a", "t", "l", "e", "s">>, <<"a", ".", "b">>}

NameSeparators == {Hyphen, SpacedEnDash, EnDash, <<"-">>}

NameRights == {<<"T">>, <<"Y", "e", "s", "t", "e", "r", "d", "a", "y", " ">>, <<"T", " ", "-", " ", "U">>, <<"T", " ", "U+2013", " ", "U">>, <<"T", " ", "U+00E2", "U+20AC", "U+201C", " ", "U">>}

NameExtensions == {<<".", "m", "p", "3">>, <<>>}

\* The file names from_filename is tried on.
FileNames ==
    {left \o separator \o right \o ext :
        left \in NameLefts, separator \in NameSeparators, right \in NameRights,
        ext \in NameExtensions}

\* A file name, no cache and no device.
NameInit ==
    \E name \in FileNames :
        /\ last = [op |-> "name", name |-> name]
        /\ fs = with_parents(EmptyMap, Cwd)
        /\ descending = FALSE
        /\ cache = [audio_dir |-> audio_cache_dir, index |-> EmptyMap,
                    playlists |-> EmptyMap, playlists_path |-> playlist_cache]
        /\ device = NotBuilt
        /\ before = [fs |-> fs, cache |-> cache, last |-> [op |-> "start"]]
        /\ commands = 0

\* AudioInfo::from_filename on the name, and AudioKey::from_info on its result
FromFilename ==
    /\ last.op = "name"
    /\ \E info \in {from_filename(<<last.name>>)} :
           last' = [op |-> "from_filename", name |-> last.name, info |-> info,
                    key |-> from_info(info)]
    /\ UNCHANGED <<fs, descending, cache, device>>

NameNext == Step(FromFilename)

NameSpec == NameInit /\ [][NameNext]_vars

----------------------------------------------------------------------------
(* Two instances of the application on one cache directory: `cache` holds
   the LocalCache of the first and of the second *)

Instances == {1, 2}

InstanceContents ==
    { {},
      {<<CachedAT, File(Audio2)>>, <<CachedBU, File(Audio1)>>,
       <<playlist_cache, File(JsonText(<< <<Mix, <<InfoAT>> >> >>))>>},
      {<<CachedAT, File(Audio2)>>, <<CachedBU, File(Audio1)>>,
       <<playlist_cache, OverlayResolved>>} }

\* The tracks an instance adds, each with where it is in the cache.
InstanceAdds == {<<InfoAT, LocalPath(CachedAT)>>, <<InfoBU, LocalPath(CachedBU)>>}

InstanceAddPlaylists == {Mix, Rock}

\* Both instances are started, one after the other, on the same directory.
InstancesInit ==
    \E files \in InstanceContents, desc \in BOOLEAN :
      \E f0 \in {populated(setup_app_directories(with_parents(EmptyMap, Cwd)).fs,
                           files \cup {<<DeviceRoot, Dir>>})} :
        \E first \in {LocalCache_new(f0, desc)} :
          \E second \in {LocalCache_new(first.fs, desc)} :
            /\ descending = desc
            /\ commands = 0
            /\ fs = second.fs
            /\ cache = <<first.cache, second.cache>>
            /\ device = AttachedDevice_new(display(DeviceRoot), DeviceRoot, second.fs, desc)
            /\ last = [op |-> "new"]
            /\ before = [fs |-> f0, cache |-> cache, last |-> [op |-> "start"]]

\* LocalCache::add_to_cache in one of the instances, of a track to a playlist
InstanceAdd(i) ==
    \E track \in InstanceAdds, name \in InstanceAddPlaylists, io \in IoOutcomes :
      \E keys \in iteration_orders(DOMAIN cache[i].playlists \cup {name}) :
        \E added \in {add_to_cache(cache[i], fs, track[1], track[2], Some(name), keys, io)} :
            /\ cache' = [cache EXCEPT ![i] = added.cache]
            /\ fs' = added.fs
            /\ last' = [op |-> "add_to_cache", instance |-> i, info |-> track[1],
                        location |-> track[2], playlist |-> Some(name), io |-> io]
            /\ UNCHANGED <<descending, device>>

\* One of the instances is stopped and started again.
InstanceRestart(i) ==
    \E new \in {LocalCache_new(fs, descending)} :
        /\ cache' = [cache EXCEPT ![i] = new.cache]
        /\ fs' = new.fs
        /\ last' = [op |-> "restart", instance |-> i]
        /\ UNCHANGED <<descending, device>>

InstancesNext ==
    \E i \in Instances :
        \/ Step(InstanceAdd(i))
        \/ Step(InstanceRestart(i))

InstancesSpec == InstancesInit /\ [][InstancesNext]_vars

----------------------------------------------------------------------------
(* The claims on rebuilds, enumeration and batches *)

audio_files_in(dir) ==
    {k \in DOMAIN fs : /\ Len(k) = Len(resolve(dir)) + 1
                       /\ SubSeq(k, 1, Len(k) - 1) = resolve(dir)
                       /\ is_supported_audio_file(fs, <<RootDir>> \o k)}

\* The names of the directories of the device's root that stand for playlists.
playlist_directory_names ==
    {k[Len(k)] : k \in {k \in DOMAIN fs : /\ Len(k) = Len(resolve(device.path)) + 1
                                         /\ SubSeq(k, 1, Len(k) - 1) = resolve(device.path)
                                         /\ fs[k].kind = "dir"
                                         /\ k[Len(k)][1] # "."
                                         /\ k[Len(k)] # SystemVolumeInformation}}

\* The artist and title the name of the file k gives.
named_track(k) ==
    Let(from_filename(<<k[Len(k)]>>), LAMBDA info : <<info.artist, info.title>>)

\* C12 - Device enumeration: list_playlists returns one Named playlist for
\* each directory of the root that is neither hidden nor "System Volume
\* Information", with one entry for each supported audio file directly in
\* it (none for a directory without any, nothing from below it), and then
\* one Uncategorized playlist exactly when the root holds a supported audio
\* file, which is the last one.
C12_DeviceEnumeration ==
    last.op = "list_playlists" =>
        \E result \in {last.result}, dirs \in {playlist_directory_names} :
            /\ \A n \in dirs :
                   Cardinality({i \in DOMAIN result : result[i].name = Named(n)}) = 1
            /\ \A i \in DOMAIN result :
                   \E files \in {audio_files_in(IF result[i].name = Uncategorized
                                                THEN device.path
                                                ELSE Append(device.path, result[i].name.name))} :
                       /\ result[i].name = Uncategorized \/ result[i].name.name \in dirs
                       /\ Len(result[i].audio) = Cardinality(files)
                       /\ {<<result[i].audio[j].artist, result[i].audio[j].title>> :
                               j \in DOMAIN result[i].audio}
                              = {named_track(k) : k \in files}
            /\ (\E i \in DOMAIN result : result[i].name = Uncategorized)
                   <=> audio_files_in(device.path) # {}
            /\ \A i \in DOMAIN result : result[i].name = Uncategorized => i = Len(result)

\* C12's case: a root with a hidden directory, the system's directory, a
\* playlist directory with one track and more below it, an empty playlist
\* directory and a track of its own.
C12_Witness ==
    /\ last.op = "list_playlists"
    /\ is_dir(fs, Append(device.path, Hidden))
    /\ is_dir(fs, Append(device.path, SystemVolumeInformation))
    /\ is_dir(fs, device.path \o <<Mix, Deep>>)
    /\ Len(last.result) = 3
    /\ \E i \in 1..2 : last.result[i].name = Named(Rock) /\ last.result[i].audio = <<>>
    /\ \E i \in 1..2 : last.result[i].name = Named(Mix) /\ Len(last.result[i].audio) = 1
    /\ last.result[3].name = Uncategorized /\ Len(last.result[3].audio) = 1

\* The directories the device's index is built from: its root and the
\* playlist directories in it.
indexed_folders ==
    {device.path} \cup {Append(device.path, n) : n \in playlist_directory_names}

\* C13 - Device index location: right after AttachedDevice::new on a root
\* that is absolute or relative, every index entry is LocalPath(root/d/f),
\* or LocalPath(root/f), of a supported file f of a playlist directory d, or
\* of the root, whose name gives the entry's key; so what contains returns
\* for a file present at construction is a path where the file exists.
C13_DeviceIndexLocation ==
    last.op \in {"new", "attach"} =>
        \A key \in DOMAIN device.index :
            /\ \E folder \in indexed_folders :
                   \E k \in audio_files_in(folder) :
                       /\ from_info(from_filename(<<k[Len(k)]>>)) = Some(key)
                       /\ device.index[key] = LocalPath(Append(folder, k[Len(k)]))
            /\ is_file(fs, device.index[key].path)

\* The AudioInfo values the device is asked for after an import.
DeviceProbes == {InfoAT, InfoLowerAT, InfoBU, InfoNoArtist}

\* Whether the playlists list the file at path p under the playlist `name`.
shows(playlists, name, p) ==
    \E i \in DOMAIN playlists :
        /\ playlists[i].name = name
        /\ \E j \in DOMAIN playlists[i].audio :
               <<playlists[i].audio[j].artist, playlists[i].audio[j].title>>
                   = named_track(resolve(p))

\* Whether list_playlists reads the directory an import to `playlist` copies into.
listed_directory(playlist) ==
    \/ playlist = None
    \/ playlist = Some(Uncategorized)
    \/ Unwrap(playlist).name \in playlist_directory_names

\* C14 - Device index staleness, as claimed: an import leaves the device's
\* index as AttachedDevice::new built it, so contains answers after the
\* import what it answered before, also for the track just copied, while
\* list_playlists, which reads the directories again, lists the copied file.
C14_IndexStaleAfterImport ==
    (last.op = "import" /\ before.last.op \in {"new", "attach"})
    => /\ \E built \in {AttachedDevice_new(device.name, device.path, before.fs, descending)} :
              \A info \in DeviceProbes :
                  device_contains(device, info) = device_contains(built, info)
       /\ last.result.ok
              => shows(list_playlists(fs, descending, device.path),
                       IF last.playlist = None THEN Uncategorized ELSE Unwrap(last.playlist),
                       last.result.value.path)

\* C14 - Device index staleness, as the code has it: contains answers after
\* an import what it answered before, and list_playlists lists the copied
\* file when it is a supported audio file copied into the root or into a
\* directory that is neither hidden nor "System Volume Information".
C14_IndexStaleListedWhenVisible ==
    (last.op = "import" /\ before.last.op \in {"new", "attach"})
    => /\ \E built \in {AttachedDevice_new(device.name, device.path, before.fs, descending)} :
              \A info \in DeviceProbes :
                  device_contains(device, info) = device_contains(built, info)
       /\ last.result.ok
              => \E listed \in {shows(list_playlists(fs, descending, device.path),
                                      IF last.playlist = None THEN Uncategorized
                                      ELSE Unwrap(last.playlist),
                                      last.result.value.path)} :
                     listed <=> (/\ listed_directory(last.playlist)
                                 /\ is_supported_audio_file(fs, last.result.value.path))

\* C14's case: a track is copied into a playlist directory of a device that
\* did not hold it; contains still answers NotFound for it and
\* list_playlists lists it.
C14_Witness ==
    /\ last.op = "import" /\ before.last.op = "new"
    /\ last.location = LocalPath(CachedAT) /\ last.playlist = Some(Named(Mix))
    /\ last.result = Ok(LocalPath(device.path \o <<Mix, basename(CachedAT)>>))
    /\ ~is_file(before.fs, last.result.value.path)
    /\ is_file(fs, last.result.value.path)
    /\ device_contains(device, InfoAT) = Err("NotFound")
    /\ shows(list_playlists(fs, descending, device.path), Named(Mix), last.result.value.path)

\* The file a download of artist and title is to leave in the cache's audio
\* directory.
expected_output(info) ==
    Append(audio_cache_dir,
           sanitize_filename(Unwrap(info.artist)) \o Hyphen
               \o sanitize_filename(Unwrap(info.title)) \o <<".", "m", "p", "3">>)

\* C15 - Downloader fetch outcome: once the search has given a URL, fetch
\* for an artist and a title fails with ExportFailed exactly when yt-dlp
\* cannot be run, exits non-zero or has not left the expected file
\* "<artist> - <title>.mp3"; when it exits zero and that file is there, fetch
\* returns Ok(LocalPath) of it and, add_to_cache having run, search(info)
\* returns it too.
C15_FetchOutcome ==
    (/\ last.op = "download"
     /\ last.info.artist # None /\ last.info.title # None
     /\ last.found = "exit_zero")
    => \E expected \in {expected_output(last.info)} :
           /\ (last.result = Err("ExportFailed"))
                  <=> (last.status # "exit_zero" \/ ~is_file(fs, expected))
           /\ (last.status = "exit_zero" /\ is_file(fs, expected))
                  => /\ last.result = Ok(LocalPath(expected))
                     /\ search(cache, last.info) = Ok(LocalPath(expected))

\* C16 - Overlay file round-trip: when the cache has just loaded a
\* playlists.json that holds an overlay, of one playlist or of several, and
\* save_playlists writes it back, the file is byte for byte the one that was
\* read, and reading what was written yields the overlay in memory again.
C16_OverlayRoundTrip ==
    (/\ last.op = "save_playlists" /\ last.ok
     /\ before.last.op \in {"new", "restart"}
     /\ is_file(before.fs, playlist_cache)
     /\ serde_from_str(before.fs[resolve(playlist_cache)].data) # None)
    => /\ fs[resolve(playlist_cache)] = before.fs[resolve(playlist_cache)]
       /\ load_playlists(fs, playlist_cache) = cache.playlists

\* C17 - search_playlist is all-or-nothing: for a name the overlay does not
\* have it returns NotFound; for one it has it returns the pair (info,
\* location) of every entry, in the overlay's order, when every entry
\* resolves through search, and otherwise the error of the first entry that
\* does not resolve, MissingInfo or NotFound, never some of the pairs.
C17_SearchPlaylistAllOrNothing ==
    last.op = "search_playlist" =>
        IF last.name \notin DOMAIN cache.playlists THEN last.result = Err("NotFound")
        ELSE \E entries \in {cache.playlists[last.name]} :
               IF \A i \in DOMAIN entries : search(cache, entries[i]).ok
               THEN /\ last.result.ok
                    /\ Len(last.result.value) = Len(entries)
                    /\ \A i \in DOMAIN entries :
                           last.result.value[i] = <<entries[i], search(cache, entries[i]).value>>
               ELSE \E k \in DOMAIN entries :
                        /\ \A j \in 1..(k - 1) : search(cache, entries[j]).ok
                        /\ ~search(cache, entries[k]).ok
                        /\ last.result = search(cache, entries[k])
                        /\ last.result.error \in {"MissingInfo", "NotFound"}

\* A playlist whose first entry resolves and whose second has no artist was
\* searched, and the call failed with MissingInfo.
C17_Witness ==
    /\ last.op = "search_playlist"
    /\ last.name \in DOMAIN cache.playlists
    /\ Len(cache.playlists[last.name]) >= 2
    /\ search(cache, cache.playlists[last.name][1]).ok
    /\ last.result = Err("MissingInfo")

\* Where import_playlist is to put the file of a location.
playlist_destination(name, location) ==
    join(join(device.path, <<name>>), <<basename(location.path)>>)

\* C18 - import_playlist is fatal on failure and not transactional: the
\* entries are imported in the order of the overlay's list; when the import
\* of the k-th entry fails the program panics there, no entry after it is
\* imported, and the files copied for the entries before it stay on the
\* device with their content.
C18_ImportPlaylistNotTransactional ==
    (last.op = "import_playlist" /\ last.args # <<>> /\ last.found.ok)
    => \E pairs \in {last.found.value}, n \in {last.imported}, name \in {last.args[1]} :
         /\ [i \in DOMAIN pairs |-> pairs[i][1]] = cache.playlists[name]
         /\ n \in 0..Len(pairs)
         /\ last.panicked <=> n < Len(pairs)
         /\ \A i \in 1..n :
              \E dest \in {playlist_destination(name, pairs[i][2])} :
                  /\ is_file(fs, dest)
                  /\ fs[resolve(dest)].data = before.fs[resolve(pairs[i][2].path)].data
         /\ last.panicked
              => ~import(device, fs, pairs[n + 1][2], pairs[n + 1][1],
                         Some(Named(name))).result.ok
         /\ \A i \in (n + 1)..Len(pairs) :
              \E dest \in {resolve(playlist_destination(name, pairs[i][2]))} :
                  (\A j \in 1..n : resolve(playlist_destination(name, pairs[j][2])) # dest)
                  => /\ dest \in DOMAIN fs <=> dest \in DOMAIN before.fs
                     /\ dest \in DOMAIN fs => fs[dest] = before.fs[dest]

\* The import of the second of three entries has failed: the first is on
\* the device and the third was never tried.
C18_Witness ==
    /\ last.op = "import_playlist" /\ last.args # <<>> /\ last.found.ok
    /\ last.panicked
    /\ last.imported = 1
    /\ Len(last.found.value) = 3
    /\ is_file(fs, playlist_destination(last.args[1], last.found.value[1][2]))
    /\ ~exists(before.fs, playlist_destination(last.args[1], last.found.value[1][2]))
    /\ ~exists(fs, playlist_destination(last.args[1], last.found.value[3][2]))

\* The source of an import lies outside the directory the import copies into.
outside_destination(location, playlist) ==
    location.kind = "LocalPath"
    /\ SubSeq(resolve(location.path), 1, Len(resolve(location.path)) - 1)
           # resolve(import_dirpath(device, playlist))

\* C19 - Import idempotence: when import(LocalPath(p), info, playlist) is
\* performed twice in a row for a source p outside the destination
\* directory, the second call leaves the filesystem as the first left it and
\* returns what the first returned; after a success that is the location of
\* the one file <destination>/basename(p), which has the content of p.
C19_ImportIdempotent ==
    (/\ last.op = "import" /\ before.last.op = "import"
     /\ last.location = before.last.location
     /\ last.info = before.last.info
     /\ last.playlist = before.last.playlist
     /\ outside_destination(last.location, last.playlist))
    => /\ fs = before.fs
       /\ last.result = before.last.result
       /\ last.result.ok
            => \E dest \in {join(import_dirpath(device, last.playlist),
                                 <<basename(last.location.path)>>)} :
                   /\ last.result = Ok(LocalPath(dest))
                   /\ is_file(fs, dest)
                   /\ fs[resolve(dest)] = fs[resolve(last.location.path)]

\* The same track of the cache was imported twice into a playlist
\* directory, with success.
C19_Witness ==
    /\ last.op = "import" /\ before.last.op = "import"
    /\ last.location = before.last.location
    /\ last.playlist = before.last.playlist
    /\ last.playlist # None
    /\ outside_destination(last.location, last.playlist)
    /\ last.result.ok /\ before.last.result.ok
    /\ is_file(fs, last.result.value.path)

\* C20 - LocalCache.fetch(info, dest_dir): for an identity that is not
\* indexed it returns NotFound; when dest_dir is the cache's audio directory
\* it returns the indexed path and writes nothing; otherwise it copies the
\* cached file to dest_dir/basename(cached path) and returns that path; the
\* index and the overlay are the same afterwards in every case.
C20_CacheFetch ==
    last.op = "fetch" =>
        \E key \in {from_info(last.info)} :
            /\ cache = before.cache
            /\ (key # None /\ Unwrap(key) \notin DOMAIN cache.index)
                   => last.result = Err("NotFound") /\ fs = before.fs
            /\ (key # None /\ Unwrap(key) \in DOMAIN cache.index)
                   => \E cached \in {cache.index[Unwrap(key)]} :
                        IF resolve(last.dest) = resolve(cache.audio_dir)
                        THEN last.result = Ok(LocalPath(cached)) /\ fs = before.fs
                        ELSE \E dest_path \in {join(last.dest, <<basename(cached)>>)} :
                               /\ last.result = Ok(LocalPath(dest_path))
                               /\ is_file(fs, dest_path)
                               /\ fs[resolve(dest_path)] = before.fs[resolve(cached)]
                               /\ \A k \in DOMAIN before.fs \ {resolve(dest_path)} :
                                      k \in DOMAIN fs /\ fs[k] = before.fs[k]

\* The stem of a file name split as the file-name convention has it: at the
\* first " - ", else at the first U+2013 between spaces, else not at all.
split_by_convention(stem) ==
    IF find(stem, Hyphen) # 0
    THEN Some(<<SubSeq(stem, 1, find(stem, Hyphen) - 1),
                SubSeq(stem, find(stem, Hyphen) + Len(Hyphen), Len(stem))>>)
    ELSE IF find(stem, SpacedEnDash) # 0
    THEN Some(<<SubSeq(stem, 1, find(stem, SpacedEnDash) - 1),
                SubSeq(stem, find(stem, SpacedEnDash) + Len(SpacedEnDash), Len(stem))>>)
    ELSE None

\* C21 - Filename parse: from_filename takes the stem of the file name and
\* splits it at the first " - ", and when there is none at the first " - "
\* written with the en dash U+2013; the artist and the title are the trimmed
\* halves, and without a split point the artist is absent and the title is
\* the whole stem.
C21_FilenameParse ==
    last.op = "from_filename" =>
        \E stem \in {Unwrap(file_stem(<<last.name>>))} :
          \E split \in {split_by_convention(stem)} :
            IF split = None
            THEN last.info.artist = None /\ last.info.title = Some(stem)
            ELSE /\ last.info.artist = Some(trim(Unwrap(split)[1]))
                 /\ last.info.title = Some(trim(Unwrap(split)[2]))

\* C22 - Every AudioInfo of the device's enumeration has for filename the
\* name of the file alone: no directory goes before it.
C22_FilenameIsBasename ==
    last.op = "list_playlists" =>
        \A i \in DOMAIN last.result :
            \A j \in DOMAIN last.result[i].audio :
                \E filename \in {last.result[i].audio[j].filename} :
                    /\ filename # None
                    /\ ~contains(Unwrap(filename), <<"/">>)

\* playlists.json holds, as load_playlists reads it, the overlay in memory.
overlay_on_disk ==
    /\ is_file(fs, playlist_cache)
    /\ serde_from_str(fs[resolve(playlist_cache)].data) = Some(cache.playlists)

\* The call was an add_to_cache with a playlist, and the write of playlists.json
\* went as `io` tells.
playlist_write(call, outcomes) ==
    call.op = "add_to_cache" /\ call.playlist # None /\ call.io \in outcomes

\* C23 - Overlay write-through: after an add_to_cache with a playlist whose
\* write succeeds, playlists.json reads back as the overlay in memory; and
\* it still does after one more call, unless that call is an add_to_cache
\* whose write fails.
C23_OverlayWriteThrough ==
    /\ playlist_write(last, {"ok"}) => overlay_on_disk
    /\ (/\ before.last.op = "add_to_cache"
        /\ playlist_write(before.last, {"ok"})
        /\ ~playlist_write(last, IoOutcomes \ {"ok"}))
       => overlay_on_disk

\* Two tracks were added to the same playlist, one after the other, and both
\* writes succeeded.
C23_Witness ==
    /\ playlist_write(last, {"ok"})
    /\ before.last.op = "add_to_cache" /\ playlist_write(before.last, {"ok"})
    /\ last.playlist = before.last.playlist
    /\ Len(cache.playlists[Unwrap(last.playlist)]) >= 2
    /\ overlay_on_disk

\* What add_to_cache is to leave in memory: the index with the key of the
\* info on the path, when there are both, and the info at the end of the
\* playlist's list.
added_in_memory ==
    \E key \in {from_info(last.info)}, name \in {Unwrap(last.playlist)} :
        /\ cache.index = IF last.location.kind = "LocalPath" /\ key # None
                         THEN (Unwrap(key) :> last.location.path) @@ before.cache.index
                         ELSE before.cache.index
        /\ (last.location.kind = "LocalPath" /\ key # None)
               => search(cache, last.info) = Ok(LocalPath(last.location.path))
        /\ DOMAIN cache.playlists = DOMAIN before.cache.playlists \cup {name}
        /\ cache.playlists[name]
               = Append(IF name \in DOMAIN before.cache.playlists
                        THEN before.cache.playlists[name] ELSE <<>>, last.info)
        /\ \A other \in DOMAIN before.cache.playlists \ {name} :
               cache.playlists[other] = before.cache.playlists[other]
        /\ search_playlist(cache, name) # Err("NotFound")
               \/ \E i \in DOMAIN cache.playlists[name] :
                      search(cache, cache.playlists[name][i]) = Err("NotFound")

\* C24 as it was claimed - Best-effort persistence: when the write of
\* playlists.json fails during add_to_cache with a playlist, the index
\* update and the appended entry stay in memory and the file on disk keeps
\* the content it had.
C24_BestEffortPersistence ==
    playlist_write(last, IoOutcomes \ {"ok"})
    => /\ added_in_memory
       /\ fs = before.fs

\* C24 - Best-effort persistence: when the write of playlists.json fails
\* during add_to_cache with a playlist, the index update and the appended
\* entry stay in memory; the file on disk keeps the content it had when it
\* could not be opened, and is left empty when it was opened and the write
\* failed; nothing else on disk changes.
C24_BestEffortInMemory ==
    playlist_write(last, IoOutcomes \ {"ok"})
    => /\ added_in_memory
       /\ last.io = "create_failed" => fs = before.fs
       /\ last.io = "write_failed"
            => /\ is_file(fs, playlist_cache)
               /\ fs[resolve(playlist_cache)] = File(Empty)
               /\ \A k \in DOMAIN before.fs \ {resolve(playlist_cache)} :
                      k \in DOMAIN fs /\ fs[k] = before.fs[k]
               /\ DOMAIN fs = DOMAIN before.fs \cup {resolve(playlist_cache)}

\* A track was added to a playlist that was on disk, and the write failed
\* after the file was opened.
C24_Witness ==
    /\ playlist_write(last, {"write_failed"})
    /\ is_file(before.fs, playlist_cache)
    /\ before.fs[resolve(playlist_cache)] # File(Empty)
    /\ Unwrap(last.playlist) \in DOMAIN before.cache.playlists
    /\ Len(cache.playlists[Unwrap(last.playlist)]) >= 2

no_overlay_on_disk(f) ==
    ~is_file(f, playlist_cache) \/ serde_from_str(f[resolve(playlist_cache)].data) = None

\* C26 - Overlay load fallback: a LocalCache constructed where playlists.json
\* is missing or cannot be read as an overlay starts with the empty overlay
\* and leaves the file as it found it; the first add_to_cache with a
\* playlist after that, when its write succeeds, replaces the whole file by
\* the overlay in memory, which holds the new entry and nothing else.
C26_OverlayLoadFallback ==
    /\ (last.op \in {"new", "restart"} /\ no_overlay_on_disk(before.fs))
           => /\ cache.playlists = EmptyMap
              /\ is_file(fs, playlist_cache) <=> is_file(before.fs, playlist_cache)
              /\ is_file(fs, playlist_cache)
                     => fs[resolve(playlist_cache)] = before.fs[resolve(playlist_cache)]
    /\ (/\ playlist_write(last, {"ok"})
        /\ before.last.op \in {"new", "restart"}
        /\ no_overlay_on_disk(before.fs))
           => /\ is_file(fs, playlist_cache)
              /\ fs[resolve(playlist_cache)].data
                     = JsonText(<< <<Unwrap(last.playlist), <<last.info>> >> >>)
              /\ cache.playlists = (Unwrap(last.playlist) :> <<last.info>>)

\* A cache was constructed over a playlists.json that is no overlay, and the
\* first add_to_cache with a playlist has replaced the file.
C26_Witness ==
    /\ playlist_write(last, {"ok"})
    /\ before.last.op \in {"new", "restart"}
    /\ is_file(before.fs, playlist_cache)
    /\ before.fs[resolve(playlist_cache)] = File(Audio1)
    /\ serde_from_str(fs[resolve(playlist_cache)].data) = Some(cache.playlists)

\* The overlay with the info appended to the list of the playlist.
appended(playlists, name, info) ==
    (name :> Append(IF name \in DOMAIN playlists THEN playlists[name] ELSE <<>>, info))
        @@ playlists

\* How many times the list of the playlist holds the info.
occurrences(playlists, name, info) ==
    IF name \notin DOMAIN playlists THEN 0
    ELSE Cardinality({i \in DOMAIN playlists[name] : playlists[name][i] = info})

\* One instance has added a track to its overlay, which was the overlay of
\* the other instance until then, and the other instance has then added
\* another track; both writes succeeded.
added_in_turn ==
    /\ playlist_write(last, {"ok"})
    /\ before.last.op = "add_to_cache" /\ playlist_write(before.last, {"ok"})
    /\ last.instance # before.last.instance
    /\ last.info # before.last.info
    /\ before.cache[before.last.instance].playlists
           = appended(before.cache[last.instance].playlists,
                      Unwrap(before.last.playlist), before.last.info)

\* C27 - Two instances on one cache directory: when both have the same
\* overlay, the first adds a track to a playlist and the second then adds
\* another track, playlists.json holds the overlay of the second alone; the
\* addition of the first is not in it, though the first still has it in
\* memory.
C27_InstancesClobber ==
    added_in_turn
    => \E first \in {before.last.instance}, second \in {last.instance} :
         \E base \in {before.cache[second].playlists} :
           /\ cache[second].playlists = appended(base, Unwrap(last.playlist), last.info)
           /\ is_file(fs, playlist_cache)
           /\ serde_from_str(fs[resolve(playlist_cache)].data) = Some(cache[second].playlists)
           /\ occurrences(cache[second].playlists, Unwrap(before.last.playlist),
                          before.last.info)
                  = occurrences(base, Unwrap(before.last.playlist), before.last.info)
           /\ occurrences(cache[first].playlists, Unwrap(before.last.playlist),
                          before.last.info)
                  = occurrences(base, Unwrap(before.last.playlist), before.last.info) + 1

\* The two instances have added each a track to the same playlist, and the
\* file holds the track of the second and not that of the first.
C27_Witness ==
    /\ added_in_turn
    /\ last.playlist = before.last.playlist
    /\ \E on_disk \in {Unwrap(serde_from_str(fs[resolve(playlist_cache)].data))} :
           /\ occurrences(on_disk, Unwrap(last.playlist), before.last.info) = 0
           /\ occurrences(on_disk, Unwrap(last.playlist), last.info) = 1

\* The playlist is not in the overlay, or one of its entries does not
\* resolve in the cache.
unresolved(name) ==
    name \notin DOMAIN cache.playlists
    \/ \E i \in DOMAIN cache.playlists[name] : ~search(cache, cache.playlists[name][i]).ok

\* C28 - import_playlist resolves before it copies: when the playlist is not
\* in the overlay or an entry of it does not resolve (MissingInfo or
\* NotFound), the command imports nothing, the entries that resolve
\* included: the filesystem is as it was, and the program goes on.
C28_ResolveBeforeCopy ==
    (last.op = "import_playlist" /\ last.args # <<>> /\ unresolved(last.args[1]))
    => /\ fs = before.fs
       /\ last.imported = 0
       /\ ~last.panicked
       /\ ~last.found.ok /\ last.found.error \in {"MissingInfo", "NotFound"}

\* The import of a playlist was asked for whose first entry resolves and
\* whose second does not; the first was not copied to the device.
C28_Witness ==
    /\ last.op = "import_playlist" /\ last.args # <<>>
    /\ last.args[1] \in DOMAIN cache.playlists
    /\ search(cache, cache.playlists[last.args[1]][1]).ok
    /\ ~search(cache, cache.playlists[last.args[1]][2]).ok
    /\ ~exists(fs, playlist_destination(last.args[1],
                                         search(cache, cache.playlists[last.args[1]][1]).value))
    /\ ~exists(fs, join(device.path, <<last.args[1]>>))

\* playlists.json is in the filesystem g what it is in the filesystem f.
same_overlay_file(f, g) ==
    /\ resolve(playlist_cache) \in DOMAIN f <=> resolve(playlist_cache) \in DOMAIN g
    /\ resolve(playlist_cache) \in DOMAIN f
           => f[resolve(playlist_cache)] = g[resolve(playlist_cache)]

\* C29 - Failed commands leave the cache as it was: after a download whose
\* fetch failed, the index, the overlay in memory and playlists.json are
\* what they were before it; after an import whose search in the cache
\* failed, with MissingInfo or NotFound, nothing in the filesystem has
\* changed.
C29_FailedCommandsFrame ==
    /\ (last.op = "download" /\ ~last.result.ok)
           => /\ cache = before.cache
              /\ same_overlay_file(before.fs, fs)
    /\ (last.op = "import_cmd" /\ ~search(before.cache, last.info).ok)
           => /\ fs = before.fs
              /\ cache = before.cache
              /\ last.result = search(before.cache, last.info)
              /\ last.result.error \in {"MissingInfo", "NotFound"}

\* A download to a playlist has failed although yt-dlp had run and left a
\* file in the audio directory.
C29_Witness ==
    /\ last.op = "download" /\ ~last.result.ok
    /\ last.playlist # None
    /\ last.status = "exit_zero"
    /\ fs # before.fs

\* The Uncategorized playlist of the result lists the file of the path.
listed_uncategorized(result, p) ==
    \E i \in DOMAIN result :
        /\ result[i].name = Uncategorized
        /\ \E j \in DOMAIN result[i].audio : result[i].audio[j].filename = Some(basename(p))

\* list_playlists was called on the cache right after its construction.
listed_after_construction ==
    /\ last.op = "cache_list_playlists"
    /\ before.last.op \in {"new", "restart"}
    /\ last.result.ok

written_keys == {k \in DOMAIN fs : k \notin DOMAIN before.fs \/ fs[k] # before.fs[k]}

\* C31 - Import containment: for every playlist name (".." , a name with a
\* path separator and an absolute path included) AttachedDevice::import
\* makes directories and writes files only inside the device root, and the
\* destination it returns is a descendant of the device root.
C31_ImportContainment ==
    last.op = "import" =>
        \E root \in {resolve(device.path)} :
            /\ \A k \in written_keys : starts_with(k, root) /\ k # root
            /\ last.result.ok
                 => \E dest \in {resolve(last.result.value.path)} :
                        starts_with(dest, root) /\ dest # root
====
